---- MODULE Spec2Model ----
(***************************************************************************)
(* A model of the ShareX upload server: the API-key middleware, the        *)
(* router (upload, serve, delete, config) and the streaming upload         *)
(* handler.  Strings are sequences of one-character strings, so that the   *)
(* string functions of the source (basename, includes, startsWith,         *)
(* substring, length) are computed and not assumed.                        *)
(***************************************************************************)
EXTENDS Integers, Sequences, FiniteSets, TLC

VARIABLES disk, rq, started, crashed, lim, wss

\* the state outside the router and the file system
aux == <<lim, wss>>

vars == <<disk, rq, started, crashed, lim, wss>>

(***************************************************************************)
(* String helpers                                                          *)
(***************************************************************************)

\* String.prototype.startsWith
StartsWith(s, p) == Len(s) >= Len(p) /\ SubSeq(s, 1, Len(p)) = p

\* String.prototype.includes
Includes(s, p) ==
    \E i \in 1..(Len(s) - Len(p) + 1) : SubSeq(s, i, i + Len(p) - 1) = p

\* String.prototype.substring(n): the string from index n (0-based) on
Substring(s, n) == SubSeq(s, n + 1, Len(s))

\* String.prototype.toLowerCase on the alphabet used by the model
LowerChar(c) ==
    CASE c = "P" -> "p"
      [] c = "N" -> "n"
      [] c = "G" -> "g"
      [] c = "E" -> "e"
      [] c = "X" -> "x"
      [] OTHER -> c

ToLowerCase(s) == [i \in 1..Len(s) |-> LowerChar(s[i])]

\* index of the last occurrence of character c in s, 0 when there is none
LastIndexOf(s, c) ==
    IF \E i \in 1..Len(s) : s[i] = c
    THEN CHOOSE i \in 1..Len(s) : s[i] = c /\ \A j \in (i + 1)..Len(s) : s[j] # c
    ELSE 0

(***************************************************************************)
(* Node's path module (posix)                                              *)
(***************************************************************************)

RECURSIVE StripTrailingSlashes(_)
StripTrailingSlashes(s) ==
    IF Len(s) > 0 /\ s[Len(s)] = "/"
    THEN StripTrailingSlashes(SubSeq(s, 1, Len(s) - 1))
    ELSE s

\* path.basename: trailing separators are dropped, then everything up to the
\* last separator
Basename(s) ==
    LET t == StripTrailingSlashes(s)
    IN  SubSeq(t, LastIndexOf(t, "/") + 1, Len(t))

\* path.extname: from the last '.' of the basename, "" when there is none or
\* when the only '.' is the first character
Extname(s) ==
    LET b == Basename(s)
        i == LastIndexOf(b, ".")
    IN  IF i <= 1 \/ b = <<".", ".">> THEN <<>> ELSE SubSeq(b, i, Len(b))

\* the segments of a path string between separators
RECURSIVE Segments(_)
Segments(s) ==
    IF \A i \in 1..Len(s) : s[i] # "/"
    THEN <<s>>
    ELSE LET k == CHOOSE i \in 1..Len(s) :
                      s[i] = "/" /\ \A j \in 1..(i - 1) : s[j] # "/"
         IN  <<SubSeq(s, 1, k - 1)>> \o Segments(SubSeq(s, k + 1, Len(s)))

\* normalisation of an absolute path given as segments: "" and "." are
\* dropped, ".." removes the segment before it (and nothing at the root)
RECURSIVE NormalizeSegs(_, _)
NormalizeSegs(todo, acc) ==
    IF todo = <<>> THEN acc
    ELSE LET h == Head(todo)
             t == Tail(todo)
         IN  IF h = <<>> \/ h = <<".">> THEN NormalizeSegs(t, acc)
             ELSE IF h = <<".", ".">>
                  THEN NormalizeSegs(t, IF acc = <<>> THEN acc
                                        ELSE SubSeq(acc, 1, Len(acc) - 1))
                  ELSE NormalizeSegs(t, Append(acc, h))

\* path.join(a, b): the two strings joined by a separator (normalisation is
\* done by Resolve, which every use of the joined path goes through)
PathJoin(a, b) == a \o <<"/">> \o b

\* the working directory of the process (WORKDIR /app)
Cwd == << <<"a", "p", "p">> >>

\* path.resolve(p): the absolute normalised path, as segments
Resolve(p) ==
    IF StartsWith(p, <<"/">>) THEN NormalizeSegs(Segments(p), <<>>)
    ELSE NormalizeSegs(Cwd \o Segments(p), <<>>)

\* the string of an absolute path given as segments
RECURSIVE PathString(_)
PathString(segs) ==
    IF segs = <<>> THEN <<>>
    ELSE <<"/">> \o Head(segs) \o PathString(Tail(segs))

(***************************************************************************)
(* Configuration (config.json) and the strings the requests are built of   *)
(***************************************************************************)

\* "uploadDirectory": "uploads/"
UploadDirectory == <<"u", "p", "l", "o", "a", "d", "s", "/">>

\* fileExtensionCheck.enabled
ExtensionCheckEnabled == TRUE

\* fileExtensionCheck.extensionsAllowed (the two the model uploads)
ExtensionsAllowed == { <<".", "p", "n", "g">>, <<".", "m", "p", "4">> }

Users == {"alice", "bob", "carol"}

KAlice == <<"a", "l", "i", "c", "e", "k", "e", "y", "0", "1">>
KBob == <<"b", "o", "b", "k", "e", "y", "0", "0", "0", "2">>
KCarol == <<"s", "h", "o", "r", "t">>
KUnknown == <<"u", "n", "k", "n", "o", "w", "n", "k", "e", "y">>
KConstructor == <<"c", "o", "n", "s", "t", "r", "u", "c", "t", "o", "r">>

\* config.keys: username -> key.  carol's key is shorter than 10 characters.
ConfigKeys == [u \in Users |->
    CASE u = "alice" -> KAlice
      [] u = "bob" -> KBob
      [] OTHER -> KCarol]

\* no key in a location (absent and "" are both falsy in every test of the source)
NoKey == <<>>

\* undefined / null as a username
NoUser == ""

\* the Map built at module load: key -> username
KeyToUsername ==
    [k \in {ConfigKeys[u] : u \in {v \in Users : ConfigKeys[v] # <<>>}} |->
        CHOOSE u \in Users : ConfigKeys[u] = k]

\* property names every plain object inherits from Object.prototype
ObjectPrototypeKeys ==
    { KConstructor,
      <<"t", "o", "S", "t", "r", "i", "n", "g">>,
      <<"v", "a", "l", "u", "e", "O", "f">> }

\* what an inherited property evaluates to: a function, which is truthy
InheritedValue == "[Function]"

\* module.exports.keyToUsername = Object.fromEntries(keyToUsername), read as
\* middleware.keyToUsername[key]: own properties first, then the prototype
ExportedKeyToUsername(key) ==
    IF key \in DOMAIN KeyToUsername THEN KeyToUsername[key]
    ELSE IF key \in ObjectPrototypeKeys THEN InheritedValue
    ELSE NoUser

Bearer == <<"B", "e", "a", "r", "e", "r", " ">>
Basic == <<"B", "a", "s", "i", "c", " ">>

\* stored and requested file names
FA == <<"a", ".", "p", "n", "g">>
FB == <<"b", ".", "m", "p", "4">>
FC == <<"c", ".", "p", "n", "g">>
FSecret == <<"s", ".", "p", "n", "g">>

\* the resolved upload directory, as segments
UploadRoot == Resolve(UploadDirectory)

\* the path of a direct child of the upload directory
InUploads(name) == Append(UploadRoot, name)

\* the files of the upload directory: name -> content
UploadDir(d) == {p \in DOMAIN d : Len(p) = Len(UploadRoot) + 1
                                  /\ SubSeq(p, 1, Len(UploadRoot)) = UploadRoot}

\* an unlink that removes nothing
DiskRemove_Nothing(d, p) == d

\* fs.unlink: the file system without the file
DiskRemove(d, p) == [q \in DOMAIN d \ {p} |-> d[q]]

DiskWrite(d, p, c) == [q \in DOMAIN d \cup {p} |-> IF q = p THEN c ELSE d[q]]

\* the upload directory as the requests see it: path -> content
DirView(d) == [p \in UploadDir(d) |-> d[p]]

(***************************************************************************)
(* Bounds of the model                                                     *)
(***************************************************************************)

\* requests handled in one behaviour
MaxRequests == 2

\* locations of one request that carry a key (query, body, X-Api-Key,
\* Authorization)
MaxKeyLocations == 2

\* config.fileSizeLimit, in bytes, scaled to the contents of the model
FileSizeLimit == 2

\* the request slots
RIDs == {1, 2}

(***************************************************************************)
(* Requests                                                                *)
(***************************************************************************)

QueryKeys == {NoKey, KAlice, KBob, KCarol, KUnknown, KConstructor}
BodyKeys == {NoKey, KAlice, KCarol, KUnknown, KConstructor}
HeaderKeys == {NoKey, KAlice, KUnknown}
AuthHeaders == {<<>>, Bearer \o KAlice, Bearer \o KUnknown, Basic \o KAlice}

\* Content-Type: none, application/x-www-form-urlencoded (parsed by
\* bodyParser before the router runs), multipart/form-data
CTypes == {"none", "form", "multipart"}

\* requested file names (req.params.filename, req.query.filename)
RequestedNames ==
    { FA, FB, FC, <<>>,
      <<".", ".">>,
      <<"/">>,
      <<".", "a">>,
      <<"a", ".", ".", "p", "n", "g">>,
      <<".", ".", "/">> \o FA,
      <<".", ".", "/">> \o FSecret,
      <<"s", "u", "b", "/">> \o FB,
      <<"/", "e", "t", "c", "/">> \o FC }

\* original file names of an uploaded file part
OriginalNames ==
    { <<"x", ".", "p", "n", "g">>,
      <<"x", ".", "P", "N", "G">>,
      <<"x", ".", "e", "x", "e">> }

\* file contents, as sequences of bytes
Contents == { <<7>>, <<7, 8>>, <<7, 8, 9>> }

\* timestamp and random part of a generated file name
Stamps == { <<"t", "1">>, <<"t", "2">> }

Idle ==
    [ route |-> "idle", stage |-> "idle", ctype |-> "none",
      qKey |-> NoKey, bodyKey |-> NoKey, body |-> NoKey, xKey |-> NoKey,
      auth |-> <<>>, fname |-> <<>>, part |-> "none", orig |-> <<>>,
      content |-> <<>>, stamp |-> <<>>, large |-> FALSE,
      username |-> NoUser, shortKey |-> FALSE,
      status |-> 0, code |-> "", nresp |-> 0,
      touched |-> {}, reqFile |-> <<>>, err |-> "",
      outKey |-> <<>>, outFile |-> <<>>, outBody |-> <<>>,
      dir0 |-> << >>,
      layout |-> <<>>, bidx |-> 1, nchunks |-> 0, sent |-> 0, bpos |-> "none",
      filename |-> <<>>, ws |-> "none", wbuf |-> <<>>, wended |-> FALSE,
      detached |-> FALSE, fstream |-> "none", bytesReceived |-> 0,
      truncated |-> FALSE, cleanups |-> <<>>, finished |-> FALSE,
      closed |-> FALSE, reqErr |-> FALSE, berr |-> "none", ferr |-> "none",
      errRun |-> FALSE, nextCalls |-> 0,
      ip |-> "", rlLimit |-> 0, rlRemaining |-> 0, rlReset |-> 0,
      range |-> <<>>, headers |-> << >>, fileSize |-> 0,
      rs |-> [open |-> FALSE, start |-> 0, end |-> 0, failed |-> "no"],
      outDoc |-> [RequestURL |-> <<>>, key |-> <<>>] ]

\* the number of key locations a request fills
KeyLocations(q, b, x, a) ==
    (IF q # NoKey THEN 1 ELSE 0) + (IF b # NoKey THEN 1 ELSE 0)
    + (IF x # NoKey THEN 1 ELSE 0) + (IF a # <<>> THEN 1 ELSE 0)

\* a request as it reaches the router
NewRequest(route, first, ct, q, b, x, a) ==
    [ Idle EXCEPT !.route = route, !.stage = first, !.ctype = ct,
                  !.qKey = q, !.bodyKey = b, !.xKey = x, !.auth = a,
                  !.body = IF ct = "form" THEN b ELSE NoKey,
                  !.dir0 = DirView(disk) ]

\* res.status(status).json / send: the response is written and the request ends
Respond(q, status, code) ==
    [ q EXCEPT !.status = status, !.code = code, !.nresp = q.nresp + 1,
               !.stage = "done" ]

(***************************************************************************)
(* libs/middleware.js                                                      *)
(***************************************************************************)

\* extractApiKey without its Authorization branch
ExtractApiKey_NoBearer(q) ==
    IF q.qKey # NoKey THEN q.qKey
    ELSE IF q.body # NoKey THEN q.body
    ELSE IF q.xKey # NoKey THEN q.xKey
    ELSE NoKey

\* extractApiKey: query, body, X-Api-Key, Authorization: Bearer, in this order
ExtractApiKey(q) ==
    IF q.qKey # NoKey THEN q.qKey
    ELSE IF q.body # NoKey THEN q.body
    ELSE IF q.xKey # NoKey THEN q.xKey
    ELSE IF q.auth # <<>> /\ StartsWith(q.auth, Bearer) THEN Substring(q.auth, 7)
    ELSE NoKey

\* validateApiKey: the username of a registered key, null otherwise
ValidateApiKey(key) ==
    IF key = NoKey THEN NoUser
    ELSE IF key \in DOMAIN KeyToUsername THEN KeyToUsername[key]
    ELSE NoUser

\* the handler that follows keyRequired on each route
AfterKeyRequired(route) ==
    CASE route = "delete" -> "deleteHandler"
      [] route = "config" -> "configHandler"
      [] OTHER -> "handleLargeUpload"

\* keyRequired, as a function of the request: the request after it
KeyRequiredOn(q) ==
    LET key == ExtractApiKey(q)
    IN  IF key = NoKey /\ q.ctype = "multipart"
        THEN [ q EXCEPT !.stage = AfterKeyRequired(q.route) ]
        ELSE IF key = NoKey THEN Respond(q, 400, "EMPTY_KEY")
        ELSE IF Len(key) < 10 THEN Respond(q, 401, "INVALID_KEY")
        ELSE IF ValidateApiKey(key) = NoUser THEN Respond(q, 401, "INVALID_KEY")
        ELSE [ q EXCEPT !.username = ValidateApiKey(key), !.shortKey = TRUE,
                        !.stage = AfterKeyRequired(q.route) ]

KeyRequired(r) ==
    /\ ~crashed
    /\ rq[r].stage = "keyRequired"
    /\ rq' = [rq EXCEPT ![r] = KeyRequiredOn(rq[r])]
    /\ UNCHANGED <<disk, started, crashed, aux>>

(***************************************************************************)
(* routes/index.js: file names, serving and deleting                       *)
(***************************************************************************)

\* validateAndSanitizeFilename without the test for '..'
ValidateAndSanitizeFilename_NoDotDot(filename) ==
    IF filename = <<>> THEN <<>>
    ELSE LET sanitized == Basename(filename)
         IN  IF StartsWith(sanitized, <<".">>) \/ Len(sanitized) = 0
             THEN <<>>
             ELSE sanitized

\* validateAndSanitizeFilename without path.basename
ValidateAndSanitizeFilename_NoBasename(filename) ==
    IF filename = <<>> THEN <<>>
    ELSE LET sanitized == filename
         IN  IF Includes(sanitized, <<".", ".">>) \/ StartsWith(sanitized, <<".">>)
                \/ Len(sanitized) = 0
             THEN <<>>
             ELSE sanitized

\* validateAndSanitizeFilename: the sanitized name, <<>> for null
ValidateAndSanitizeFilename(filename) ==
    IF filename = <<>> THEN <<>>
    ELSE LET sanitized == Basename(filename)
         IN  IF Includes(sanitized, <<".", ".">>) \/ StartsWith(sanitized, <<".">>)
                \/ Len(sanitized) = 0
             THEN <<>>
             ELSE sanitized

\* resolvedPath.startsWith(uploadDir), on the path strings
WithinUploadDir(filePath) ==
    StartsWith(PathString(Resolve(filePath)), PathString(UploadRoot))

\* the file a handler works on: path.join(config.uploadDirectory, filename)
FilePathOf(q) == PathJoin(UploadDirectory, ValidateAndSanitizeFilename(q.fname))

\* fs.access that never fails
Access_Always(d, path) == TRUE

\* await fs.access(filePath) resolves: the file is there
Access(d, path) == path \in DOMAIN d

\* the synchronous start of a serve or delete handler: the name and the
\* containment check, up to the first await (fs.access)
\* router.get("/f/:filename")
ServeHandler(r) ==
    /\ ~crashed
    /\ rq[r].stage = "serveHandler"
    /\ LET q == rq[r]
           filename == ValidateAndSanitizeFilename(q.fname)
       IN  rq' = [rq EXCEPT ![r] =
                IF filename = <<>> THEN Respond(q, 400, "")
                ELSE IF ~WithinUploadDir(FilePathOf(q)) THEN Respond(q, 403, "")
                ELSE [q EXCEPT !.stage = "serveAccess"]]
    /\ UNCHANGED <<disk, started, crashed, aux>>

\* await fs.access(filePath)
ServeAccess(r) ==
    /\ ~crashed
    /\ rq[r].stage = "serveAccess"
    /\ LET q == rq[r]
           path == Resolve(FilePathOf(q))
           seen == [q EXCEPT !.touched = q.touched \cup {path}]
       IN  rq' = [rq EXCEPT ![r] =
                IF Access(disk, path) THEN [seen EXCEPT !.stage = "serveStat"]
                ELSE Respond(seen, 404, "")]
    /\ UNCHANGED <<disk, started, crashed, aux>>

\* CONTENT_TYPES, on the extensions of the model ("" stands for undefined)
ContentTypes(ext) ==
    CASE ext = <<".", "m", "p", "4">> -> "video/mp4"
      [] ext = <<".", "p", "n", "g">> -> "image/png"
      [] OTHER -> ""

\* VIDEO_EXTENSIONS.includes(ext), on the extensions of the model
IsVideoExtension(ext) == ext = <<".", "m", "p", "4">>

\* a JavaScript number: an integer or NaN
Num(n) == [nan |-> FALSE, val |-> n]
NaN == [nan |-> TRUE, val |-> 0]

\* a >= b and a > b on numbers: false as soon as one side is NaN
NumGe(a, b) == ~a.nan /\ ~b.nan /\ a.val >= b.val
NumGt(a, b) == ~a.nan /\ ~b.nan /\ a.val > b.val

\* the decimal digits and their values
DecimalDigits == <<"0", "1", "2", "3", "4", "5", "6", "7", "8", "9">>
IsDigit(c) == \E i \in 1..Len(DecimalDigits) : DecimalDigits[i] = c
DigitValue(c) == (CHOOSE i \in 1..Len(DecimalDigits) : DecimalDigits[i] = c) - 1

\* the value of the longest prefix of decimal digits of s, after acc
RECURSIVE ParseDigits(_, _)
ParseDigits(s, acc) ==
    IF s = <<>> \/ ~IsDigit(Head(s)) THEN acc
    ELSE ParseDigits(Tail(s), acc * 10 + DigitValue(Head(s)))

\* leading white space is skipped by parseInt
RECURSIVE TrimStart(_)
TrimStart(s) == IF s # <<>> /\ Head(s) = " " THEN TrimStart(Tail(s)) ELSE s

\* parseInt(s, 10): white space, a sign, then the longest prefix of digits;
\* NaN when there is no digit
ParseInt(s) ==
    LET t == TrimStart(s)
        signed == t # <<>> /\ Head(t) \in {"+", "-"}
        u == IF signed THEN Tail(t) ELSE t
        n == ParseDigits(u, 0)
    IN  IF u = <<>> \/ ~IsDigit(Head(u)) THEN NaN
        ELSE Num(IF signed /\ Head(t) = "-" THEN 0 - n ELSE n)

\* index of the first occurrence of p in s, 0 when there is none
IndexOf(s, p) ==
    IF Includes(s, p)
    THEN CHOOSE i \in 1..(Len(s) - Len(p) + 1) :
            /\ SubSeq(s, i, i + Len(p) - 1) = p
            /\ \A j \in 1..(i - 1) : SubSeq(s, j, j + Len(p) - 1) # p
    ELSE 0

\* range.replace(/bytes=/, ""): the first occurrence is removed, wherever it is
ReplaceBytes(s) ==
    LET p == <<"b", "y", "t", "e", "s", "=">>
        i == IndexOf(s, p)
    IN  IF i = 0 THEN s
        ELSE SubSeq(s, 1, i - 1) \o SubSeq(s, i + Len(p), Len(s))

\* String.prototype.split("-")
RECURSIVE SplitDash(_)
SplitDash(s) ==
    LET i == IndexOf(s, <<"-">>)
    IN  IF i = 0 THEN <<s>>
        ELSE <<SubSeq(s, 1, i - 1)>> \o SplitDash(SubSeq(s, i + 1, Len(s)))

\* const start = parseInt(parts[0], 10)
RangeStart(range) == ParseInt(SplitDash(ReplaceBytes(range))[1])

\* the end of the range with the whole size as the default
RangeEnd_WholeSize(range, fileSize) ==
    LET parts == SplitDash(ReplaceBytes(range))
    IN  IF Len(parts) >= 2 /\ parts[2] # <<>> THEN ParseInt(parts[2])
        ELSE Num(fileSize)

\* const end = parts[1] ? parseInt(parts[1], 10) : fileSize - 1
RangeEnd(range, fileSize) ==
    LET parts == SplitDash(ReplaceBytes(range))
    IN  IF Len(parts) >= 2 /\ parts[2] # <<>> THEN ParseInt(parts[2])
        ELSE Num(fileSize - 1)

\* the range validation with its comparison against the end of the file left out
Unsatisfiable_NoEndCheck(start, end, fileSize) ==
    NumGe(start, Num(fileSize)) \/ NumGt(start, end)

\* start >= fileSize || end >= fileSize || start > end
Unsatisfiable(start, end, fileSize) ==
    NumGe(start, Num(fileSize)) \/ NumGe(end, Num(fileSize)) \/ NumGt(start, end)

\* the check of a position by fs.createReadStream: an integer that is not
\* negative, or the call throws
ValidPosition(n) == ~n.nan /\ n.val >= 0

\* the security headers of every file response
SecurityHeaders ==
    ("X-Content-Type-Options" :> "nosniff") @@ ("X-Frame-Options" :> "DENY")

\* the headers handleVideoFile and the image branch share
InlineHeaders(contentType, length) ==
    ("Content-Length" :> length) @@ ("Content-Type" :> contentType)
    @@ ("Content-Disposition" :> "inline")
    @@ ("Cache-Control" :> "public, max-age=31536000")

\* the value of a Content-Range header: bytes start-end/size, or bytes */size
ContentRange(start, end, size) ==
    [unit |-> "bytes", any |-> FALSE, start |-> start, end |-> end, size |-> size]
ContentRangeAny(size) ==
    [unit |-> "bytes", any |-> TRUE, start |-> 0, end |-> 0, size |-> size]

\* res.writeHead, then the stream that is piped: the status line and the
\* headers are sent, the body is still to come
SendHead(q, status, headers, start, end) ==
    [q EXCEPT !.status = status, !.nresp = q.nresp + 1,
              !.headers = headers @@ q.headers,
              !.rs = [open |-> TRUE, start |-> start, end |-> end, failed |-> "no"],
              !.stage = "serveStream"]

\* res.setHeader, then the stream that is piped: the headers wait for the
\* first write of the pipe
SetHead(q, headers, start, end) ==
    [q EXCEPT !.headers = headers @@ q.headers,
              !.rs = [open |-> TRUE, start |-> start, end |-> end, failed |-> "no"],
              !.stage = "serveStream"]

\* handleVideoFile, up to the streams it pipes
HandleVideoFile(q, fileSize, ext) ==
    LET range == q.range
        contentType == ContentTypes(ext)
        start == RangeStart(range)
        end == RangeEnd(range, fileSize)
    IN  IF range # <<>>
        THEN IF Unsatisfiable(start, end, fileSize)
             THEN [Respond(q, 416, "") EXCEPT
                      !.headers = ("Content-Range" :> ContentRangeAny(fileSize))
                                  @@ q.headers]
             ELSE IF ~ValidPosition(start) \/ ~ValidPosition(end)
             THEN \* createReadStream throws; the route's catch answers
                  Respond(q, 500, "")
             ELSE SendHead(q, 206,
                           ("Content-Range" :> ContentRange(start.val, end.val, fileSize))
                           @@ ("Accept-Ranges" :> "bytes")
                           @@ InlineHeaders(contentType, end.val - start.val + 1),
                           start.val, end.val)
        ELSE SendHead(q, 200,
                      ("Accept-Ranges" :> "bytes")
                      @@ InlineHeaders(contentType, fileSize),
                      0, fileSize - 1)

\* router.get("/f/:filename") after fs.stat: the headers and the stream
AfterStat(q, fileSize) ==
    LET filename == ValidateAndSanitizeFilename(q.fname)
        ext == ToLowerCase(Extname(filename))
        secured == [q EXCEPT !.headers = SecurityHeaders, !.fileSize = fileSize]
    IN  IF IsVideoExtension(ext) THEN HandleVideoFile(secured, fileSize, ext)
        ELSE IF ContentTypes(ext) # ""
        THEN SetHead(secured, InlineHeaders(ContentTypes(ext), fileSize),
                     0, fileSize - 1)
        ELSE \* res.download(filePath)
             SetHead(secured,
                     ("Content-Length" :> fileSize)
                     @@ ("Content-Disposition" :> "attachment"),
                     0, fileSize - 1)

\* await fs.stat(filePath), and the handler up to the stream it pipes; a
\* failure of stat is caught by the handler's catch: 500
ServeStat(r) ==
    /\ ~crashed
    /\ rq[r].stage = "serveStat"
    /\ LET q == rq[r]
           path == Resolve(FilePathOf(q))
           seen == [q EXCEPT !.touched = q.touched \cup {path}]
       IN  rq' = [rq EXCEPT ![r] =
                IF path \in DOMAIN disk THEN AfterStat(seen, Len(disk[path]))
                ELSE Respond(seen, 500, "")]
    /\ UNCHANGED <<disk, started, crashed, aux>>

\* a read stream that stops one byte before its end option
ReadBytes_EndExclusive(content, start, end) == SubSeq(content, start + 1, end)

\* the bytes a read stream with options {start, end} delivers
ReadBytes(content, start, end) ==
    SubSeq(content, start + 1, IF end + 1 > Len(content) THEN Len(content) ELSE end + 1)

\* the pipe writes bytes to the response: the first write sends the status
\* line and the headers that were set, if they are not out yet
Written(q, bytes) ==
    IF bytes = <<>> THEN q
    ELSE [q EXCEPT !.status = IF q.status = 0 THEN 200 ELSE q.status,
                   !.nresp = IF q.status = 0 THEN q.nresp + 1 ELSE q.nresp,
                   !.outBody = q.outBody \o bytes]

\* the read stream ends: the pipe ends the response
Piped(q) ==
    [q EXCEPT !.status = IF q.status = 0 THEN 200 ELSE q.status,
              !.nresp = IF q.status = 0 THEN q.nresp + 1 ELSE q.nresp,
              !.stage = "done"]

\* readStream.on('error'), file.on('error'): a 500 while the headers are
\* unsent; once they are sent the handler only logs, and the pipe, undone by
\* the error, never ends the response: it stays open
OnReadError(q) ==
    IF q.status = 0
    THEN Respond([q EXCEPT !.rs.failed = "unsent"], 500, "")
    ELSE [q EXCEPT !.rs.failed = "sent", !.stage = "open"]

\* the read stream is piped to the response, to its end; a file that cannot
\* be opened is an error of the stream
ServeStream(r) ==
    /\ ~crashed
    /\ rq[r].stage = "serveStream"
    /\ LET q == rq[r]
           path == Resolve(FilePathOf(q))
           seen == [q EXCEPT !.touched = q.touched \cup {path}]
       IN  rq' = [rq EXCEPT ![r] =
                IF path \in DOMAIN disk
                THEN Piped(Written(seen, ReadBytes(disk[path], q.rs.start, q.rs.end)))
                ELSE OnReadError(seen)]
    /\ UNCHANGED <<disk, started, crashed, aux>>

\* the read stream fails after it delivered some of the bytes, or none
ReadError(r) ==
    /\ ~crashed
    /\ rq[r].stage = "serveStream"
    /\ LET q == rq[r]
           path == Resolve(FilePathOf(q))
           seen == [q EXCEPT !.touched = q.touched \cup {path}]
       IN  /\ path \in DOMAIN disk
           /\ LET span == ReadBytes(disk[path], q.rs.start, q.rs.end)
              IN  \E k \in 0 .. Len(span) :
                     /\ k = 0 \/ k < Len(span)
                     /\ rq' = [rq EXCEPT ![r] =
                                 OnReadError(Written(seen, SubSeq(span, 1, k)))]
    /\ UNCHANGED <<disk, started, crashed, aux>>

\* router.get("/delete"), up to the first await
DeleteHandler(r) ==
    /\ ~crashed
    /\ rq[r].stage = "deleteHandler"
    /\ LET q == rq[r]
           filename == ValidateAndSanitizeFilename(q.fname)
       IN  rq' = [rq EXCEPT ![r] =
                IF filename = <<>> THEN Respond(q, 400, "EMPTY_FILENAME")
                ELSE IF ~WithinUploadDir(FilePathOf(q))
                     THEN Respond(q, 404, "FILE_NOT_FOUND")
                ELSE [q EXCEPT !.stage = "deleteAccess"]]
    /\ UNCHANGED <<disk, started, crashed, aux>>

\* await fs.access(filePath)
DeleteAccess(r) ==
    /\ ~crashed
    /\ rq[r].stage = "deleteAccess"
    /\ LET q == rq[r]
           path == Resolve(FilePathOf(q))
           seen == [q EXCEPT !.touched = q.touched \cup {path}]
       IN  rq' = [rq EXCEPT ![r] =
                IF Access(disk, path) THEN [seen EXCEPT !.stage = "deleteUnlink"]
                ELSE Respond(seen, 404, "FILE_NOT_FOUND")]
    /\ UNCHANGED <<disk, started, crashed, aux>>

\* await fs.unlink(filePath); response.deleted, or the catch's 500
DeleteUnlink(r) ==
    /\ ~crashed
    /\ rq[r].stage = "deleteUnlink"
    /\ LET q == rq[r]
           path == Resolve(FilePathOf(q))
           seen == [q EXCEPT !.touched = q.touched \cup {path}]
       IN  IF path \in DOMAIN disk
           THEN /\ disk' = DiskRemove(disk, path)
                /\ rq' = [rq EXCEPT ![r] =
                       [Respond(seen, 200, "OK") EXCEPT
                           !.outFile = ValidateAndSanitizeFilename(q.fname)]]
           ELSE /\ disk' = disk
                /\ rq' = [rq EXCEPT ![r] = Respond(seen, 500, "")]
    /\ UNCHANGED <<started, crashed, aux>>

\* "serverUrl": "https://your-domain.com", shortened
ServerUrl == <<"h", "t", "t", "p", "s", ":", "/", "/", "d">>

\* the key of one fixed user, whoever asks
UserKey_OfFirstUser(username) == ConfigKeys[CHOOSE u \in Users : TRUE]

\* const userKey = config.keys[req.locals.username]
UserKey(username) == ConfigKeys[username]

\* the ShareX configuration sent as an attachment: the fields that depend on
\* the server's settings and on the caller
SharexConfig(userKey) ==
    [ RequestURL |-> ServerUrl \o <<"/", "u", "p", "l", "o", "a", "d">>,
      key |-> userKey ]

\* router.get("/config")
ConfigHandler(r) ==
    /\ ~crashed
    /\ rq[r].stage = "configHandler"
    /\ LET q == rq[r]
       IN  rq' = [rq EXCEPT ![r] =
                IF q.username = NoUser THEN Respond(q, 401, "INVALID_KEY")
                ELSE IF q.username \notin Users \/ UserKey(q.username) = <<>>
                     THEN Respond(q, 401, "INVALID_KEY")
                ELSE [Respond(q, 200, "OK") EXCEPT
                         !.outKey = UserKey(q.username),
                         !.outDoc = SharexConfig(UserKey(q.username))]]
    /\ UNCHANGED <<disk, started, crashed, aux>>

(***************************************************************************)
(* routes/index.js: the regular upload path                                *)
(***************************************************************************)

\* the name a stored file gets: `${formattedDate}_${randomPart}${fileExtension}`;
\* the stamp stands for the date and the random part
GeneratedName(stamp, orig) == stamp \o ToLowerCase(Extname(orig))

\* isFileExtensionAllowed taking the branch of a disabled check
IsFileExtensionAllowed_CheckDisabled(orig) == TRUE

\* fileFilter / isFileExtensionAllowed
IsFileExtensionAllowed(orig) ==
    IF ~ExtensionCheckEnabled THEN TRUE
    ELSE ToLowerCase(Extname(orig)) \in ExtensionsAllowed

\* next(err): the request goes to the route's error handler
NextErr(q, code) == [q EXCEPT !.stage = "uploadError", !.err = code]

\* the response of the error handler of router.post("/upload")
ErrorResponse(q, code) ==
    CASE code = "INVALID_FILE_EXTENSION" -> Respond(q, 400, "INVALID_EXTENSION")
      [] code = "LIMIT_FILE_SIZE" -> Respond(q, 413, "FILE_TOO_LARGE")
      [] code = "LIMIT_UNEXPECTED_FILE" -> Respond(q, 400, "NO_FILE")
      [] OTHER -> Respond(q, 500, "")

\* upload.single("file"): multer with the disk storage, the file filter and
\* the limits of the router.  A request that is not multipart passes through.
MulterSingle(r) ==
    /\ ~crashed
    /\ rq[r].stage = "multer"
    /\ LET q == rq[r]
           parsed == [q EXCEPT !.body = q.bodyKey]
           path == InUploads(GeneratedName(q.stamp, q.orig))
       IN  IF q.ctype # "multipart"
           THEN /\ rq' = [rq EXCEPT ![r] = [q EXCEPT !.stage = "uploadHandler"]]
                /\ disk' = disk
           ELSE IF q.large
           THEN \* the streaming handler has read the request to its end:
                \* req.body is replaced by an empty object and the parser
                \* meets the end of the request before any part.  With the
                \* parser of multer 1.4.5 and later this is the error
                \* "Unexpected end of form"; with the parser of older
                \* releases the form finishes empty and req.file is left
                \* as the streaming handler set it.
                /\ \E passes \in BOOLEAN :
                     rq' = [rq EXCEPT ![r] =
                              IF passes
                              THEN [q EXCEPT !.body = NoKey, !.stage = "uploadHandler"]
                              ELSE NextErr([q EXCEPT !.body = NoKey], "UNEXPECTED_END")]
                /\ disk' = disk
           ELSE IF q.part = "none"
           THEN /\ rq' = [rq EXCEPT ![r] = [parsed EXCEPT !.stage = "uploadHandler"]]
                /\ disk' = disk
           ELSE IF q.part = "other"
           THEN /\ rq' = [rq EXCEPT ![r] = NextErr(parsed, "LIMIT_UNEXPECTED_FILE")]
                /\ disk' = disk
           ELSE IF ~IsFileExtensionAllowed(q.orig)
           THEN /\ rq' = [rq EXCEPT ![r] = NextErr(parsed, "INVALID_FILE_EXTENSION")]
                /\ disk' = disk
           ELSE IF Len(q.content) > FileSizeLimit
           THEN \* the part is cut at the limit and the stored file removed
                /\ rq' = [rq EXCEPT ![r] = NextErr(parsed, "LIMIT_FILE_SIZE")]
                /\ disk' = DiskRemove(disk, path)
           ELSE /\ rq' = [rq EXCEPT ![r] =
                       [parsed EXCEPT !.stage = "uploadHandler",
                                      !.reqFile = GeneratedName(q.stamp, q.orig)]]
                /\ disk' = DiskWrite(disk, path, q.content)
    /\ UNCHANGED <<started, crashed, aux>>

\* the text of an absent value inside a template string
Undefined == <<"u", "n", "d", "e", "f", "i", "n", "e", "d">>

\* the deferred key check of the upload handler: the request after it, its
\* stage unchanged when the check passes
DeferredKeyCheck(q) ==
    IF q.username # NoUser THEN q
    ELSE IF q.body # NoKey
         THEN IF ExportedKeyToUsername(q.body) = NoUser
              THEN Respond(q, 401, "INVALID_KEY")
              ELSE [q EXCEPT !.username = ExportedKeyToUsername(q.body),
                             !.shortKey = TRUE]
         ELSE Respond(q, 400, "EMPTY_KEY")

\* the handler of router.post("/upload").  Every path of it writes a
\* response; on sent headers that throws, the catch block's own response
\* throws again, the promise of the async handler is rejected and the
\* unhandledRejection handler of app.js exits the process.
UploadHandler(r) ==
    /\ ~crashed
    /\ rq[r].stage = "uploadHandler"
    /\ IF rq[r].status # 0
       THEN /\ rq' = [rq EXCEPT ![r] = [rq[r] EXCEPT !.stage = "done"]]
            /\ crashed' = TRUE
       ELSE /\ LET q == DeferredKeyCheck(rq[r])
               IN  rq' = [rq EXCEPT ![r] =
                        IF q.stage = "done" THEN q
                        ELSE IF q.reqFile = <<>> THEN Respond(q, 400, "NO_FILE")
                        ELSE [Respond(q, 200, "OK") EXCEPT
                                 !.outFile = q.reqFile,
                                 !.outKey = IF q.body = NoKey THEN Undefined ELSE q.body]]
            /\ crashed' = crashed
    /\ UNCHANGED <<disk, started, aux>>

\* the error handler of router.post("/upload")
UploadError(r) ==
    /\ ~crashed
    /\ rq[r].stage = "uploadError"
    /\ LET q == rq[r]
       IN  rq' = [rq EXCEPT ![r] =
                \* a response on sent headers throws; Express hands the error
                \* to the application's error handler, silent on sent headers
                IF q.status = 0
                THEN [ErrorResponse(q, q.err) EXCEPT !.errRun = TRUE]
                ELSE [q EXCEPT !.errRun = TRUE, !.stage = "done"]]
    /\ UNCHANGED <<disk, started, crashed, aux>>

(***************************************************************************)
(* libs/handleLargeFile.js                                                 *)
(***************************************************************************)

\* config.largeFileSizeLimit, in bytes of the model
LargeFileSizeLimit == 2

\* the most data chunks, of one byte each, a streamed file part carries
MaxChunks == 3

\* generateUniqueFilename: date, random part and the lower-cased extension
GenerateUniqueFilename(stamp, orig) == stamp \o ToLowerCase(Extname(orig))

\* path.join(config.uploadDirectory, filename) of the streamed file, resolved
StreamPath(q) == InUploads(q.filename)

\* next(err) of Express from any point of the route: the route's error
\* handler runs once; a response on sent headers throws inside Express, which
\* hands the error to the application's error handler, silent on sent
\* headers.  Later calls find the route's stack exhausted and reach the
\* application's error handler at once.
ExpressNextErr(q, code) ==
    LET n == [q EXCEPT !.nextCalls = @ + 1, !.err = code]
    IN  IF ~q.errRun
        THEN [(IF q.status = 0 THEN ErrorResponse(n, code) ELSE n)
                 EXCEPT !.errRun = TRUE, !.stage = "done"]
        ELSE IF q.status = 0 THEN Respond(n, 500, "") ELSE n

\* next() of Express from the streaming handler: on to multer, or, the
\* route's stack exhausted by an earlier next(err), out of the route
ExpressNext(q) ==
    LET n == [q EXCEPT !.nextCalls = @ + 1]
    IN  IF q.stage = "busboy" /\ ~q.errRun
        THEN [n EXCEPT !.stage = "multer"]
        ELSE IF q.status = 0 THEN Respond(n, 404, "") ELSE n

\* what follows "await cleanupFile(filePath)" in a handler: next(err), or
\* nothing
Continue(q, cont) == IF cont = "" THEN q ELSE ExpressNextErr(q, cont)

\* cleanupFile up to its await: fs.existsSync decides whether an unlink is
\* issued; without one the handler goes on at once
CleanupFile(d, q, cont) ==
    IF q.filename # <<>> /\ StreamPath(q) \in DOMAIN d
    THEN [q EXCEPT !.cleanups = Append(@, cont)]
    ELSE Continue(q, cont)

\* writeStream.destroy(): an open in flight still completes, buffered data is
\* dropped, and the piped file stream is unpiped and stops flowing
Destroy(q) ==
    [q EXCEPT !.ws = CASE @ = "opening" -> "destroyedOpening"
                       [] @ = "open" -> "closed"
                       [] OTHER -> @,
              !.wbuf = <<>>,
              !.fstream = IF @ = "flowing" THEN "paused" ELSE @]

\* the next part of the multipart body the parser has not seen yet
NextItem(q) == IF q.bidx <= Len(q.layout) THEN q.layout[q.bidx] ELSE "end"

\* handleLargeUpload: the choice between the regular and the streaming path
\* (Content-Length above fileSizeLimit, or ?largeFile=true); on the streaming
\* path the handlers are registered and the request piped into busboy
HandleLargeUpload(r) ==
    /\ ~crashed
    /\ rq[r].stage = "handleLargeUpload"
    /\ rq' = [rq EXCEPT ![r] =
             IF rq[r].large
             THEN [rq[r] EXCEPT !.stage = "busboy", !.bpos = "open"]
             ELSE [rq[r] EXCEPT !.stage = "multer"]]
    /\ UNCHANGED <<disk, started, crashed, aux>>

\* busboy.on('field'): the field is stored in req.body
BusboyField(r) ==
    /\ ~crashed
    /\ rq[r].bpos = "open"
    /\ NextItem(rq[r]) = "key"
    /\ rq' = [rq EXCEPT ![r] =
             [rq[r] EXCEPT !.body = rq[r].bodyKey, !.bidx = @ + 1]]
    /\ UNCHANGED <<disk, started, crashed, aux>>

\* busboy.on('file'): a part without a file name or with a refused extension
\* is discarded and next(err) called; otherwise the name is generated, the
\* write stream created (its open is asynchronous) and the part piped into it
BusboyFile(r) ==
    /\ ~crashed
    /\ rq[r].bpos = "open"
    /\ NextItem(rq[r]) = "file"
    /\ rq[r].fstream = "none"
    /\ LET q == rq[r]
       IN  rq' = [rq EXCEPT ![r] =
                IF q.orig = <<>>
                THEN ExpressNextErr([q EXCEPT !.fstream = "discard"], "NO_FILENAME")
                ELSE IF ~IsFileExtensionAllowed(q.orig)
                THEN ExpressNextErr([q EXCEPT !.fstream = "discard"],
                                    "INVALID_FILE_EXTENSION")
                ELSE [q EXCEPT !.filename = GenerateUniqueFilename(q.stamp, q.orig),
                               !.ws = "opening", !.fstream = "flowing"]]
    /\ UNCHANGED <<disk, started, crashed, aux>>

\* a chunk of the file part: busboy passes on at most limits.fileSize bytes
\* and silently drops the rest, marking the stream truncated; file.on('data')
\* counts what is passed on, and the pipe hands it to the write stream
FileData(r) ==
    /\ ~crashed
    /\ rq[r].bpos = "open"
    /\ NextItem(rq[r]) = "file"
    /\ rq[r].fstream \in {"flowing", "discard"}
    /\ rq[r].sent < rq[r].nchunks
    /\ LET q == [rq[r] EXCEPT !.sent = @ + 1]
       IN  rq' = [rq EXCEPT ![r] =
                IF rq[r].sent >= LargeFileSizeLimit
                THEN [q EXCEPT !.truncated = TRUE]
                ELSE IF q.fstream = "flowing"
                THEN [q EXCEPT !.bytesReceived = @ + 1,
                               !.wbuf = Append(@, q.sent)]
                ELSE q]
    /\ UNCHANGED <<disk, started, crashed, aux>>

\* the end of the file part: file.on('end'), and the pipe ends the write
\* stream
FileEnd(r) ==
    /\ ~crashed
    /\ rq[r].bpos = "open"
    /\ NextItem(rq[r]) = "file"
    /\ rq[r].fstream \in {"flowing", "discard"}
    /\ rq[r].sent = rq[r].nchunks
    /\ rq' = [rq EXCEPT ![r] =
             [rq[r] EXCEPT !.wended = (rq[r].fstream = "flowing"),
                           !.fstream = "ended", !.bidx = @ + 1]]
    /\ UNCHANGED <<disk, started, crashed, aux>>

\* the request ends after the closing boundary of the form
RequestEnd(r) ==
    /\ ~crashed
    /\ rq[r].bpos = "open"
    /\ NextItem(rq[r]) = "end"
    /\ rq' = [rq EXCEPT ![r] = [rq[r] EXCEPT !.bpos = "ended"]]
    /\ UNCHANGED <<disk, started, crashed, aux>>

\* the request ends before the closing boundary: busboy fails with
\* "Unexpected end of form" and destroys a file stream still open with it
TruncatedEnd(r) ==
    /\ ~crashed
    /\ rq[r].bpos = "open"
    /\ rq' = [rq EXCEPT ![r] =
             [rq[r] EXCEPT !.bpos = "broken", !.berr = "pending",
                           !.ferr = IF rq[r].fstream \in {"flowing", "paused", "discard"}
                                    THEN "pending" ELSE @]]
    /\ UNCHANGED <<disk, started, crashed, aux>>

\* busboy.on('finish'): without a file the handler answers NO_FILE itself,
\* and a response on sent headers throws outside Express: the exception is
\* uncaught and the process exits; with a file req.file is set and next()
\* called
BusboyFinish(r) ==
    /\ ~crashed
    /\ rq[r].bpos = "ended"
    /\ ~rq[r].finished
    /\ rq[r].fstream \in {"none", "ended"}
    /\ rq[r].berr = "none"
    /\ LET q == [rq[r] EXCEPT !.finished = TRUE]
       IN  IF q.filename = <<>>
           THEN IF q.status = 0
                THEN /\ rq' = [rq EXCEPT ![r] = Respond(q, 400, "NO_FILE")]
                     /\ crashed' = crashed
                ELSE /\ rq' = [rq EXCEPT ![r] = q]
                     /\ crashed' = TRUE
           ELSE /\ rq' = [rq EXCEPT ![r] =
                            ExpressNext([q EXCEPT !.reqFile = q.filename])]
                /\ crashed' = crashed
    /\ UNCHANGED <<disk, started, aux>>

\* busboy.on('error'): the write stream is destroyed, the file cleaned up,
\* then next(err); busboy reports no LIMIT_FILE_SIZE error
BusboyError(r) ==
    /\ ~crashed
    /\ rq[r].berr = "pending"
    /\ rq' = [rq EXCEPT ![r] =
             CleanupFile(disk, Destroy([rq[r] EXCEPT !.berr = "done"]),
                         "UNEXPECTED_END")]
    /\ UNCHANGED <<disk, started, crashed, aux>>

\* file.on('error'): the write stream is destroyed, the file cleaned up, then
\* next(err); a discarded part has no error listener, the error is thrown
\* and the process exits
FileError(r) ==
    /\ ~crashed
    /\ rq[r].ferr = "pending"
    /\ LET q == [rq[r] EXCEPT !.ferr = "done"]
       IN  IF q.fstream = "discard"
           THEN /\ rq' = [rq EXCEPT ![r] = q]
                /\ crashed' = TRUE
           ELSE /\ rq' = [rq EXCEPT ![r] =
                            CleanupFile(disk,
                                Destroy([q EXCEPT !.fstream = "errored"]),
                                "UNEXPECTED_END")]
                /\ crashed' = crashed
    /\ UNCHANGED <<disk, started, aux>>

\* writeStream.on('error'): the open or a write has failed; the stream is
\* gone, the file cleaned up, then next(err)
WriteError(r) ==
    /\ ~crashed
    /\ rq[r].ws \in {"opening", "open"}
    /\ rq' = [rq EXCEPT ![r] =
             CleanupFile(disk,
                 [rq[r] EXCEPT !.ws = "errored", !.wbuf = <<>>,
                               !.fstream = IF @ = "flowing" THEN "paused" ELSE @],
                 "WRITE_ERROR")]
    /\ UNCHANGED <<disk, started, crashed, aux>>

\* the open of fs.createWriteStream completes: the file is created empty,
\* and closed again when the stream was destroyed meanwhile
WriteOpen(r) ==
    /\ ~crashed
    /\ rq[r].ws \in {"opening", "destroyedOpening"}
    /\ disk' = DiskWrite(disk, StreamPath(rq[r]), <<>>)
    /\ rq' = [rq EXCEPT ![r] =
             [rq[r] EXCEPT !.ws = IF @ = "opening" THEN "open" ELSE "closed",
                           !.detached = FALSE]]
    /\ UNCHANGED <<started, crashed, aux>>

\* the write stream writes its oldest buffered chunk; a file unlinked
\* meanwhile has no name any more
WriteFlush(r) ==
    /\ ~crashed
    /\ rq[r].ws = "open"
    /\ rq[r].wbuf # <<>>
    /\ LET p == StreamPath(rq[r])
       IN  disk' = IF ~rq[r].detached /\ p \in DOMAIN disk
                   THEN DiskWrite(disk, p, Append(disk[p], Head(rq[r].wbuf)))
                   ELSE disk
    /\ rq' = [rq EXCEPT ![r] = [rq[r] EXCEPT !.wbuf = Tail(@)]]
    /\ UNCHANGED <<started, crashed, aux>>

\* the ended write stream has written everything and closes
WriteFinish(r) ==
    /\ ~crashed
    /\ rq[r].ws = "open"
    /\ rq[r].wended
    /\ rq[r].wbuf = <<>>
    /\ rq' = [rq EXCEPT ![r] = [rq[r] EXCEPT !.ws = "closed"]]
    /\ UNCHANGED <<disk, started, crashed, aux>>

\* the unlink of cleanupFile completes (a failure is logged), and the handler
\* that awaited it goes on
CleanupUnlink(r) ==
    /\ ~crashed
    /\ rq[r].cleanups # <<>>
    /\ LET q == rq[r]
           p == StreamPath(q)
       IN  /\ disk' = DiskRemove(disk, p)
           /\ rq' = [rq EXCEPT ![r] =
                    Continue([q EXCEPT !.cleanups = Tail(@),
                                       !.detached = @ \/ p \in DOMAIN disk],
                             Head(q.cleanups))]
    /\ UNCHANGED <<started, crashed, aux>>

\* the request timeout of app.js: the connection has been idle for 30
\* minutes while the server waits for the rest of the form; 408 is answered
\* unless headers are sent, and the request goes on
RequestTimeout(r) ==
    /\ ~crashed
    /\ rq[r].bpos = "open"
    /\ rq[r].status = 0
    /\ rq' = [rq EXCEPT ![r] =
             [rq[r] EXCEPT !.status = 408, !.nresp = @ + 1]]
    /\ UNCHANGED <<disk, started, crashed, aux>>

\* req.on('error'): the write stream is destroyed and the file cleaned up
ReqError(r) ==
    /\ ~crashed
    /\ rq[r].bpos = "open"
    /\ ~rq[r].reqErr
    /\ rq' = [rq EXCEPT ![r] =
             CleanupFile(disk,
                 Destroy([rq[r] EXCEPT !.reqErr = TRUE, !.bpos = "broken"]), "")]
    /\ UNCHANGED <<disk, started, crashed, aux>>

\* req.on('close'): the connection has closed; unless headers are sent the
\* write stream is destroyed and the file cleaned up
ReqClose(r) ==
    /\ ~crashed
    /\ rq[r].bpos # "none"
    /\ ~rq[r].closed
    /\ LET q == [rq[r] EXCEPT !.closed = TRUE,
                              !.bpos = IF @ = "open" THEN "broken" ELSE @]
       IN  rq' = [rq EXCEPT ![r] =
                IF q.status = 0 THEN CleanupFile(disk, Destroy(q), "") ELSE q]
    /\ UNCHANGED <<disk, started, crashed, aux>>

(***************************************************************************)
(* Rate limiting (middleware.rateLimit, mounted on /upload and /delete     *)
(* ahead of the routes)                                                    *)
(***************************************************************************)

\* rateLimit(50, ...) on /upload, scaled
UploadMaxRequests == 2

\* rateLimit(100, ...) on /delete, scaled
DeleteMaxRequests == 3

\* the window of both limiters (15 minutes), in ticks of the clock
RateWindowMs == 2

\* the clock stops here
MaxNow == 4

\* requests handled in one behaviour of the limited server
MaxLimited == 4

\* the network addresses requests come from (req.ip)
IPs == {"10.0.0.1", "10.0.0.2"}

LimitedRoutes == {"upload", "delete"}

\* the arguments of the limiter mounted on a path
MaxRequestsOf(route) ==
    IF route = "upload" THEN UploadMaxRequests ELSE DeleteMaxRequests

\* no request was seen yet: each limiter's Map is empty
NoLimiterState == [now |-> 0, upload |-> << >>, delete |-> << >>]

\* one Map shared by the two limiters
Requests_Shared(l, route) == l.upload

\* the Map of the limiter mounted on a path
Requests(l, route) == IF route = "upload" THEN l.upload ELSE l.delete

\* req.locals?.username || req.ip
ClientId(q) == IF q.username # NoUser THEN q.username ELSE q.ip

\* now - data.resetTime > windowMs
Expired(data, now, windowMs) == now - data.resetTime > windowMs

\* the loop that deletes the old entries
CleanUp(requests, now, windowMs) ==
    [id \in {i \in DOMAIN requests : ~Expired(requests[i], now, windowMs)} |->
        requests[id]]

\* get or create the client data
ClientData(requests, clientId, now, windowMs) ==
    IF clientId \notin DOMAIN requests
       \/ Expired(requests[clientId], now, windowMs)
    THEN [count |-> 0, resetTime |-> now]
    ELSE requests[clientId]

\* requests.set(clientId, clientData)
MapSet(requests, clientId, data) ==
    [id \in DOMAIN requests \cup {clientId} |->
        IF id = clientId THEN data ELSE requests[id]]

\* the limit check with the comparison one step late
OverLimit_OneLate(count, maxRequests) == count > maxRequests

\* clientData.count >= maxRequests
OverLimit(count, maxRequests) == count >= maxRequests

\* a counter that is left as it is
Counted_Not(data) == data

\* a counter that moves on by two
Counted_ByTwo(data) == [data EXCEPT !.count = @ + 2]

\* clientData.count++
Counted(data) == [data EXCEPT !.count = @ + 1]

\* Math.max(0, n)
Max0(n) == IF n < 0 THEN 0 ELSE n

\* the middleware returned by rateLimit(maxRequests, windowMs)
RateLimit(r) ==
    /\ ~crashed
    /\ rq[r].stage = "rateLimit"
    /\ LET q == rq[r]
           maxRequests == MaxRequestsOf(q.route)
           clientId == ClientId(q)
           cleaned == CleanUp(Requests(lim, q.route), lim.now, RateWindowMs)
           data == ClientData(cleaned, clientId, lim.now, RateWindowMs)
           over == OverLimit(data.count, maxRequests)
           counted == IF over THEN data ELSE Counted(data)
           table == MapSet(cleaned, clientId, counted)
       IN  /\ lim' = IF q.route = "upload"
                     THEN [lim EXCEPT !.upload = table]
                     ELSE [lim EXCEPT !.delete = table]
           /\ rq' = [rq EXCEPT ![r] =
                IF over
                THEN Respond(q, 429, "")
                ELSE [q EXCEPT !.stage = "keyRequired",
                               !.rlLimit = maxRequests,
                               !.rlRemaining = Max0(maxRequests - counted.count),
                               !.rlReset = counted.resetTime + RateWindowMs]]
    /\ UNCHANGED <<disk, started, crashed, wss>>

(***************************************************************************)
(* app.js: the WebSocket server for upload progress                        *)
(***************************************************************************)

\* maxPayload of the WebSocket server, and the limit of the message handler
MaxPayload == 1024

\* the connection timeout (5 minutes), in ticks of the connection's clock
WsTimeoutTicks == 2

\* the clock of a connection stops here
MaxWsTime == 3

\* inbound messages of one connection
MaxWsMessages == 2

\* the connections of a behaviour
WIDs == {1}

\* the identifiers a client may track
UploadIds == {"u1", "u2"}

\* an inbound message: its length in bytes, what JSON.parse makes of it
\* ("invalid": a SyntaxError; "null"; "scalar": a number or a string;
\* "object"), and for an object its type and uploadId properties ("" stands
\* for an absent property; idType is typeof data.uploadId)
Message(length, syntax, type, uploadId, idType) ==
    [length |-> length, syntax |-> syntax, type |-> type,
     uploadId |-> uploadId, idType |-> idType]

NoMessage == Message(0, "none", "", "", "undefined")

Messages ==
    { Message(30, "object", "track", id, "string") : id \in UploadIds }
    \cup { Message(30, "object", "track", "", "string"),
           Message(30, "object", "track", "", "undefined"),
           Message(30, "object", "track", "7", "number"),
           Message(30, "object", "ping", "", "undefined"),
           Message(4, "null", "", "", "undefined"),
           Message(2, "scalar", "", "", "undefined"),
           Message(30, "invalid", "", "", "undefined"),
           Message(2000, "object", "track", "u1", "string") }

\* a connection: its ready state, the connection timeout, the time since it
\* was opened and since its last inbound message, ws.uploadId, what the
\* server has sent on it, the close code the server closed it with, and the
\* last inbound message
NoClient ==
    [ state |-> "none", timer |-> "none", age |-> 0, idle |-> 0,
      uploadId |-> "", out |-> <<>>, closeCode |-> 0, last |-> NoMessage,
      nmsg |-> 0 ]

\* no connection, and activeUploads = new Map()
NoSockets == [clients |-> [c \in WIDs |-> NoClient], activeUploads |-> << >>]

\* ws.close(code, reason): the closing handshake starts
WsClose(client, code) ==
    [client EXCEPT !.state = "closing", !.closeCode = code]

\* data.type === 'track' && data.uploadId && typeof data.uploadId === 'string'
IsTrack(m) == m.type = "track" /\ m.uploadId # "" /\ m.idType = "string"

\* the body of ws.on('message') after clearTimeout
OnMessage(client, m, activeUploads) ==
    IF m.length > MaxPayload THEN WsClose(client, 1009)
    ELSE IF m.syntax = "invalid" THEN WsClose(client, 1003)
    ELSE IF m.syntax = "null" THEN \* data.type throws a TypeError
         WsClose(client, 1003)
    ELSE IF m.syntax = "object" /\ IsTrack(m)
    THEN [client EXCEPT
             !.uploadId = m.uploadId,
             !.out = IF m.uploadId \in DOMAIN activeUploads
                     THEN Append(@, activeUploads[m.uploadId]) ELSE @]
    ELSE client

\* wss.on('connection'): the connection timeout is set
WsConnect(c) ==
    /\ ~crashed
    /\ wss.clients[c].state = "none"
    /\ wss' = [wss EXCEPT !.clients[c] =
                 [NoClient EXCEPT !.state = "open", !.timer = "armed"]]
    /\ UNCHANGED <<disk, rq, started, crashed, lim>>

\* a message arrives.  One above maxPayload is refused by the receiver of the
\* ws library, which closes with 1009 and emits 'error' (the error handler
\* clears the timeout); any other reaches ws.on('message'), which clears the
\* timeout first.
WsMessage(c) ==
    /\ ~crashed
    /\ wss.clients[c].state = "open"
    /\ wss.clients[c].nmsg < MaxWsMessages
    /\ \E m \in Messages :
         wss' = [wss EXCEPT !.clients[c] =
                   [OnMessage(wss.clients[c], m, wss.activeUploads) EXCEPT
                       !.timer = "cleared", !.idle = 0, !.last = m,
                       !.nmsg = @ + 1]]
    /\ UNCHANGED <<disk, rq, started, crashed, lim>>

\* the connection timeout fires: ws.terminate()
WsTimeout(c) ==
    /\ ~crashed
    /\ wss.clients[c].timer = "armed"
    /\ wss.clients[c].age >= WsTimeoutTicks
    /\ wss' = [wss EXCEPT !.clients[c] =
                 [@ EXCEPT !.state = "terminated", !.timer = "fired"]]
    /\ UNCHANGED <<disk, rq, started, crashed, lim>>

\* the closing handshake completes, or the client closes: ws.on('close')
\* clears the timeout
WsClosed(c) ==
    /\ ~crashed
    /\ wss.clients[c].state \in {"open", "closing"}
    /\ wss' = [wss EXCEPT !.clients[c] =
                 [@ EXCEPT !.state = "closed",
                           !.timer = IF @ = "armed" THEN "cleared" ELSE @]]
    /\ UNCHANGED <<disk, rq, started, crashed, lim>>

\* time passes on the connections; a timeout that is due fires first
WsTick ==
    /\ ~crashed
    /\ \E c \in WIDs : wss.clients[c].state \in {"open", "closing"}
    /\ \A c \in WIDs :
          /\ wss.clients[c].age < MaxWsTime
          /\ wss.clients[c].timer = "armed" => wss.clients[c].age < WsTimeoutTicks
    /\ wss' = [wss EXCEPT !.clients =
                 [c \in WIDs |->
                    IF wss.clients[c].state \in {"open", "closing"}
                    THEN [wss.clients[c] EXCEPT !.age = @ + 1, !.idle = @ + 1]
                    ELSE wss.clients[c]]]
    /\ UNCHANGED <<disk, rq, started, crashed, lim>>

(***************************************************************************)
(* Requests arriving and leaving                                           *)
(***************************************************************************)

\* the keys of a request, by location
KeyInputs ==
    { k \in [ct : CTypes, q : QueryKeys, b : BodyKeys, x : HeaderKeys, a : AuthHeaders] :
        /\ k.ct = "none" => k.b = NoKey
        /\ KeyLocations(k.q, k.b, k.x, k.a) <= MaxKeyLocations }

\* the file part of an upload: none, a part named "file", a part of another name
FileParts ==
    { [part |-> "none", orig |-> <<>>, content |-> <<>>, stamp |-> <<>>] }
    \cup { [part |-> "other", orig |-> <<"x", ".", "p", "n", "g">>,
            content |-> <<7>>, stamp |-> <<>>] }
    \cup [part : {"file"}, orig : OriginalNames, content : Contents, stamp : Stamps]

\* one request at a time, in the first slot
Sequential(r) ==
    /\ r = 1
    /\ started < MaxRequests
    /\ \A o \in RIDs : rq[o].stage = "idle"

StartDelete(r) ==
    /\ ~crashed
    /\ Sequential(r)
    /\ \E k \in KeyInputs, n \in RequestedNames :
         rq' = [rq EXCEPT ![r] =
                  [NewRequest("delete", "keyRequired", k.ct, k.q, k.b, k.x, k.a)
                     EXCEPT !.fname = n]]
    /\ started' = started + 1
    /\ UNCHANGED <<disk, crashed, aux>>

StartServe(r) ==
    /\ ~crashed
    /\ Sequential(r)
    /\ \E n \in RequestedNames :
         rq' = [rq EXCEPT ![r] =
                  [NewRequest("serve", "serveHandler", "none", NoKey, NoKey, NoKey, <<>>)
                     EXCEPT !.fname = n]]
    /\ started' = started + 1
    /\ UNCHANGED <<disk, crashed, aux>>

StartConfig(r) ==
    /\ ~crashed
    /\ Sequential(r)
    /\ \E k \in KeyInputs :
         rq' = [rq EXCEPT ![r] =
                  NewRequest("config", "keyRequired", k.ct, k.q, k.b, k.x, k.a)]
    /\ started' = started + 1
    /\ UNCHANGED <<disk, crashed, aux>>

StartUpload(r) ==
    /\ ~crashed
    /\ Sequential(r)
    /\ \E k \in KeyInputs, f \in FileParts :
         /\ k.ct # "multipart" => f.part = "none"
         /\ rq' = [rq EXCEPT ![r] =
                  [NewRequest("upload", "keyRequired", k.ct, k.q, k.b, k.x, k.a)
                     EXCEPT !.part = f.part, !.orig = f.orig,
                            !.content = f.content, !.stamp = f.stamp]]
    /\ started' = started + 1
    /\ UNCHANGED <<disk, crashed, aux>>

\* the response has been written: the request is over
Finish(r) ==
    /\ ~crashed
    /\ rq[r].stage = "done"
    /\ rq' = [rq EXCEPT ![r] = Idle]
    /\ UNCHANGED <<disk, started, crashed, aux>>

(***************************************************************************)
(* Specification: the router, one request at a time                        *)
(***************************************************************************)

\* two stored files, and one file of the application outside the upload
\* directory
InitialDisk ==
    LET paths == {InUploads(FA), InUploads(FB), Append(Cwd, FSecret)}
    IN  [p \in paths |->
           IF p = InUploads(FA) THEN <<1>>
           ELSE IF p = InUploads(FB) THEN <<1, 2, 3>>
           ELSE <<9>>]

Init ==
    /\ disk = InitialDisk
    /\ rq = [r \in RIDs |-> Idle]
    /\ started = 0
    /\ crashed = FALSE
    /\ lim = NoLimiterState
    /\ wss = NoSockets

Next ==
    \E r \in RIDs :
        \/ StartDelete(r)
        \/ StartServe(r)
        \/ StartConfig(r)
        \/ StartUpload(r)
        \/ KeyRequired(r)
        \/ ServeHandler(r)
        \/ ServeAccess(r)
        \/ ServeStat(r)
        \/ ServeStream(r)
        \/ DeleteHandler(r)
        \/ DeleteAccess(r)
        \/ DeleteUnlink(r)
        \/ ConfigHandler(r)
        \/ HandleLargeUpload(r)
        \/ MulterSingle(r)
        \/ UploadHandler(r)
        \/ UploadError(r)
        \/ Finish(r)

Spec == Init /\ [][Next]_vars

(***************************************************************************)
(* Specification: one streamed upload, event by event                      *)
(***************************************************************************)

\* the parts of a streamed form: the key field before or after the file part
StreamLayouts ==
    { <<>>, <<"file">>, <<"key">>, <<"key", "file">>, <<"file", "key">> }

\* a multipart upload above fileSizeLimit arrives
StartStream(r) ==
    /\ ~crashed
    /\ r = 1
    /\ started = 0
    /\ \A o \in RIDs : rq[o].stage = "idle"
    /\ \E q \in {NoKey, KAlice}, b \in {NoKey, KAlice, KUnknown},
          l \in StreamLayouts, o \in OriginalNames \cup {<<>>},
          n \in 0..MaxChunks :
         /\ (b # NoKey) <=> (\E i \in 1..Len(l) : l[i] = "key")
         /\ (\A i \in 1..Len(l) : l[i] # "file") => (o = <<>> /\ n = 0)
         /\ rq' = [rq EXCEPT ![r] =
                  [NewRequest("upload", "keyRequired", "multipart", q, b, NoKey, <<>>)
                     EXCEPT !.large = TRUE, !.layout = l, !.orig = o,
                            !.nchunks = n, !.stamp = <<"t", "1">>]]
    /\ started' = started + 1
    /\ UNCHANGED <<disk, crashed, aux>>

\* the steps of the streamed upload in slot r
StreamStep(r) ==
    \/ KeyRequired(r)
    \/ HandleLargeUpload(r)
    \/ BusboyField(r)
    \/ BusboyFile(r)
    \/ FileData(r)
    \/ FileEnd(r)
    \/ RequestEnd(r)
    \/ TruncatedEnd(r)
    \/ BusboyFinish(r)
    \/ BusboyError(r)
    \/ FileError(r)
    \/ WriteError(r)
    \/ WriteOpen(r)
    \/ WriteFlush(r)
    \/ WriteFinish(r)
    \/ CleanupUnlink(r)
    \/ RequestTimeout(r)
    \/ ReqError(r)
    \/ ReqClose(r)
    \/ MulterSingle(r)
    \/ UploadHandler(r)
    \/ UploadError(r)

NextStream == \E r \in RIDs : StartStream(r) \/ StreamStep(r)

SpecStream == Init /\ [][NextStream]_vars

\* nothing of the streamed upload in slot r is still to happen (after an
\* uncaught exception the process has exited)
Quiescent(r) == ~ENABLED StreamStep(r)

(***************************************************************************)
(* Specification: the limited paths, with the clock                        *)
(***************************************************************************)

LimitedKeys == {NoKey, KAlice, KBob, KUnknown}

\* a request to /upload or /delete arrives from a network address
StartLimited(r) ==
    /\ ~crashed
    /\ r = 1
    /\ started < MaxLimited
    /\ \A o \in RIDs : rq[o].stage = "idle"
    /\ \E route \in LimitedRoutes, ip \in IPs, k \in LimitedKeys :
         rq' = [rq EXCEPT ![r] =
                  [NewRequest(route, "rateLimit", "none", k, NoKey, NoKey, <<>>)
                     EXCEPT !.ip = ip,
                            !.fname = IF route = "delete" THEN FA ELSE <<>>]]
    /\ started' = started + 1
    /\ UNCHANGED <<disk, crashed, aux>>

\* Date.now() moves on between two requests
Tick ==
    /\ ~crashed
    /\ lim.now < MaxNow
    /\ \A o \in RIDs : rq[o].stage = "idle"
    /\ lim' = [lim EXCEPT !.now = @ + 1]
    /\ UNCHANGED <<disk, rq, started, crashed, wss>>

LimitedStep(r) ==
    \/ RateLimit(r)
    \/ KeyRequired(r)
    \/ DeleteHandler(r)
    \/ DeleteAccess(r)
    \/ DeleteUnlink(r)
    \/ HandleLargeUpload(r)
    \/ MulterSingle(r)
    \/ UploadHandler(r)
    \/ Finish(r)

NextLimit == Tick \/ \E r \in RIDs : StartLimited(r) \/ LimitedStep(r)

SpecLimit == Init /\ [][NextLimit]_vars

\* a request to /upload or /delete that carries no key
StartKeyless(r) ==
    /\ ~crashed
    /\ r = 1
    /\ started < MaxLimited
    /\ \A o \in RIDs : rq[o].stage = "idle"
    /\ \E route \in LimitedRoutes, ip \in IPs :
         rq' = [rq EXCEPT ![r] =
                  [NewRequest(route, "rateLimit", "none", NoKey, NoKey, NoKey, <<>>)
                     EXCEPT !.ip = ip]]
    /\ started' = started + 1
    /\ UNCHANGED <<disk, crashed, aux>>

\* what the server does by itself on such a request
ServerKeyless == \E r \in RIDs : RateLimit(r) \/ KeyRequired(r) \/ Finish(r)

NextKeyless ==
    \/ Tick
    \/ \E r \in RIDs : StartKeyless(r)
    \/ \E r \in RIDs : RateLimit(r) \/ KeyRequired(r) \/ Finish(r)

\* the clock runs and the server finishes what it has begun; whether a
\* further request arrives is up to the clients
SpecLimitFair ==
    Init /\ [][NextKeyless]_vars /\ WF_vars(Tick) /\ WF_vars(ServerKeyless)

(***************************************************************************)
(* Specification: files fetched with a Range header                        *)
(***************************************************************************)

\* an empty video in the upload directory
FE == <<"e", ".", "m", "p", "4">>

\* the Range header of a request: a header value as the client wrote it
Bytes(s) == <<"b", "y", "t", "e", "s", "=">> \o s

RangeHeaders ==
    { <<>>,
      Bytes(<<"0", "-", "0">>), Bytes(<<"0", "-", "2">>), Bytes(<<"1", "-", "2">>),
      Bytes(<<"1", "-", "1">>), Bytes(<<"0", "-">>), Bytes(<<"1", "-">>),
      Bytes(<<"2", "-">>), Bytes(<<"3", "-">>), Bytes(<<"2", "-", "1">>),
      Bytes(<<"0", "-", "3">>), Bytes(<<"1", "-", "1", "0">>),
      Bytes(<<"4", "-", "5">>), Bytes(<<"0", "1", "-", "0", "2">>),
      Bytes(<<"-", "1">>), Bytes(<<"-", "5">>), Bytes(<<"-">>), Bytes(<<>>),
      Bytes(<<"a", "-", "1">>), Bytes(<<"0", "-", "b">>), Bytes(<<"1", "a", "-", "2">>),
      Bytes(<<"0", "-", "1", "-", "2">>),
      <<"0", "-", "1">>,
      <<"i", "t", "e", "m", "s", "=", "0", "-", "1">> }

ServedNames == {FA, FB, FC, FE}

\* the stored files of InitialDisk and the empty video
ServeDisk ==
    [p \in DOMAIN InitialDisk \cup {InUploads(FE)} |->
        IF p = InUploads(FE) THEN <<>> ELSE InitialDisk[p]]

InitServe ==
    /\ disk = ServeDisk
    /\ rq = [r \in RIDs |-> Idle]
    /\ started = 0
    /\ crashed = FALSE
    /\ lim = NoLimiterState
    /\ wss = NoSockets

\* GET /f/:filename with a Range header
StartRanged(r) ==
    /\ ~crashed
    /\ Sequential(r)
    /\ \E n \in ServedNames, range \in RangeHeaders :
         rq' = [rq EXCEPT ![r] =
                  [NewRequest("serve", "serveHandler", "none", NoKey, NoKey, NoKey, <<>>)
                     EXCEPT !.fname = n, !.range = range]]
    /\ started' = started + 1
    /\ UNCHANGED <<disk, crashed, aux>>

NextServe ==
    \E r \in RIDs :
        \/ StartRanged(r)
        \/ ServeHandler(r)
        \/ ServeAccess(r)
        \/ ServeStat(r)
        \/ ServeStream(r)
        \/ Finish(r)

SpecServe == InitServe /\ [][NextServe]_vars

\* the same requests, on a disk whose reads can fail
NextServeIo ==
    \E r \in RIDs :
        \/ StartRanged(r)
        \/ ServeHandler(r)
        \/ ServeAccess(r)
        \/ ServeStat(r)
        \/ ServeStream(r)
        \/ ReadError(r)
        \/ Finish(r)

SpecServeIo == InitServe /\ [][NextServeIo]_vars

(***************************************************************************)
(* Specification: an upload, and the fetch of the URL it returned          *)
(***************************************************************************)

\* the client fetches file.url of the upload answered in the first slot;
\* config.staticFileServerUrl is the address of the /f/ route
StartFetch(r) ==
    /\ ~crashed
    /\ r = 2
    /\ rq[1].route = "upload" /\ rq[1].stage = "done" /\ rq[1].status = 200
    /\ rq[2].stage = "idle"
    /\ started <= MaxRequests
    /\ rq' = [rq EXCEPT ![r] =
                [NewRequest("serve", "serveHandler", "none", NoKey, NoKey, NoKey, <<>>)
                   EXCEPT !.fname = rq[1].outFile]]
    /\ started' = started + 1
    /\ UNCHANGED <<disk, crashed, aux>>

NextRound ==
    \E r \in RIDs :
        \/ StartUpload(r)
        \/ KeyRequired(r)
        \/ HandleLargeUpload(r)
        \/ MulterSingle(r)
        \/ UploadHandler(r)
        \/ UploadError(r)
        \/ StartFetch(r)
        \/ ServeHandler(r)
        \/ ServeAccess(r)
        \/ ServeStat(r)
        \/ ServeStream(r)
        \/ Finish(r)

SpecRound == Init /\ [][NextRound]_vars

(***************************************************************************)
(* Specification: a subscriber and a streamed upload                       *)
(***************************************************************************)

\* a multipart upload above fileSizeLimit arrives, with a key in the query
\* string and one file part of one chunk
StartTracked(r) ==
    /\ ~crashed
    /\ r = 1
    /\ started = 0
    /\ \A o \in RIDs : rq[o].stage = "idle"
    /\ rq' = [rq EXCEPT ![r] =
               [NewRequest("upload", "keyRequired", "multipart", KAlice, NoKey,
                           NoKey, <<>>)
                  EXCEPT !.large = TRUE, !.layout = <<"file">>,
                         !.orig = <<"x", ".", "p", "n", "g">>,
                         !.nchunks = 1, !.stamp = <<"t", "1">>]]
    /\ started' = started + 1
    /\ UNCHANGED <<disk, crashed, aux>>

\* the steps of the server on the upload: the streamed upload without errors
\* of the connection or the disk
TrackedStep(r) ==
    \/ KeyRequired(r)
    \/ HandleLargeUpload(r)
    \/ BusboyFile(r)
    \/ FileData(r)
    \/ FileEnd(r)
    \/ RequestEnd(r)
    \/ BusboyFinish(r)
    \/ WriteOpen(r)
    \/ WriteFlush(r)
    \/ WriteFinish(r)
    \/ MulterSingle(r)
    \/ UploadHandler(r)
    \/ UploadError(r)

\* the steps the server takes by itself
ServerWs == (\E r \in RIDs : TrackedStep(r)) \/ (\E c \in WIDs : WsTimeout(c))

NextWs ==
    \/ WsTick
    \/ \E c \in WIDs : WsConnect(c) \/ WsMessage(c) \/ WsTimeout(c) \/ WsClosed(c)
    \/ \E r \in RIDs : StartTracked(r) \/ TrackedStep(r)

\* the server does not stop by itself; clients and the clock are free
SpecWs == Init /\ [][NextWs]_vars /\ WF_vars(ServerWs)

(***************************************************************************)
(* Specification: a streamed upload, and a second client that asks for the *)
(* file the upload writes                                                  *)
(***************************************************************************)

\* GET /f/<name> or GET /delete?filename=<name>&key=<key> arrives while the
\* upload of the first slot is in the server, <name> being the name that
\* upload generates
StartProbe(r) ==
    /\ ~crashed
    /\ r = 2
    /\ started = 1
    /\ rq[2].stage = "idle"
    /\ rq[1].route = "upload"
    /\ \E route \in {"serve", "delete"} :
         rq' = [rq EXCEPT ![r] =
                  [NewRequest(route,
                              IF route = "serve" THEN "serveHandler" ELSE "keyRequired",
                              "none",
                              IF route = "serve" THEN NoKey ELSE KAlice,
                              NoKey, NoKey, <<>>)
                     EXCEPT !.fname = GenerateUniqueFilename(rq[1].stamp, rq[1].orig)]]
    /\ started' = started + 1
    /\ UNCHANGED <<disk, crashed, aux>>

\* the steps of the server on the two requests: the streamed upload, with a
\* request that ends early, and the handlers of /f and /delete
SharedStep(r) ==
    \/ TrackedStep(r)
    \/ TruncatedEnd(r)
    \/ BusboyError(r)
    \/ FileError(r)
    \/ CleanupUnlink(r)
    \/ ServeHandler(r)
    \/ ServeAccess(r)
    \/ ServeStat(r)
    \/ ServeStream(r)
    \/ DeleteHandler(r)
    \/ DeleteAccess(r)
    \/ DeleteUnlink(r)

NextShared == \E r \in RIDs : StartTracked(r) \/ StartProbe(r) \/ SharedStep(r)

SpecShared == Init /\ [][NextShared]_vars

(***************************************************************************)
(* Specification: two requests for stored files, handled concurrently      *)
(***************************************************************************)

\* GET /delete with alice's key or GET /f for a stored file arrives in a free
\* slot, whatever the other slot is doing
StartRace(r) ==
    /\ ~crashed
    /\ started < MaxRequests
    /\ rq[r].stage = "idle"
    /\ \E route \in {"serve", "delete"}, n \in {FA, FB} :
         rq' = [rq EXCEPT ![r] =
                  [NewRequest(route,
                              IF route = "serve" THEN "serveHandler" ELSE "keyRequired",
                              "none",
                              IF route = "serve" THEN NoKey ELSE KAlice,
                              NoKey, NoKey, <<>>)
                     EXCEPT !.fname = n]]
    /\ started' = started + 1
    /\ UNCHANGED <<disk, crashed, aux>>

\* the handlers run up to their awaits, in any order
NextRace ==
    \E r \in RIDs :
        \/ StartRace(r)
        \/ KeyRequired(r)
        \/ DeleteHandler(r)
        \/ DeleteAccess(r)
        \/ DeleteUnlink(r)
        \/ ServeHandler(r)
        \/ ServeAccess(r)
        \/ ServeStat(r)
        \/ ServeStream(r)

SpecRace == Init /\ [][NextRace]_vars

(***************************************************************************)
(* Properties of the router                                                *)
(***************************************************************************)

AuthRoutes == {"upload", "delete", "config"}

AuthErrors == {"EMPTY_KEY", "INVALID_KEY"}

\* the token of an Authorization: Bearer header, NoKey for any other header
BearerToken(q) ==
    IF StartsWith(q.auth, Bearer) THEN SubSeq(q.auth, Len(Bearer) + 1, Len(q.auth))
    ELSE NoKey

\* the keys a request presents: query, body (the multipart body counts where
\* it is parsed, on /upload), X-Api-Key, Bearer token
PresentedKeys(q) ==
    ({q.qKey, q.xKey, BearerToken(q)}
        \cup (IF q.ctype = "form" \/ (q.ctype = "multipart" /\ q.route = "upload")
              THEN {q.bodyKey} ELSE {}))
    \ {NoKey}

ConfiguredKeys == {ConfigKeys[u] : u \in Users}

\* C1 (as claimed): a delete request changes the upload directory only when
\* keyRequired attached a configured username to it, and a delete request that
\* carries no configured key leaves the directory as it was.  (The claim adds
\* that such a request is answered EMPTY_KEY or INVALID_KEY; the removal of a
\* file is what is checked here.)
C1_DeleteOnlyWithKey ==
    \A r \in RIDs :
        (rq[r].route = "delete" /\ rq[r].stage = "done") =>
            /\ DirView(disk) # rq[r].dir0 => rq[r].username \in Users
            /\ PresentedKeys(rq[r]) \cap ConfiguredKeys = {} =>
                   DirView(disk) = rq[r].dir0

\* C2 (as claimed): an upload answered with an authentication error leaves the
\* upload directory as it was before the request.
C2_AuthErrorLeavesNoFile ==
    \A r \in RIDs :
        (rq[r].route = "upload" /\ rq[r].stage = "done" /\ rq[r].code \in AuthErrors) =>
            DirView(disk) = rq[r].dir0

\* C3 (as claimed): a request whose presented keys are all unconfigured ends
\* with 401 INVALID_KEY and without a username.
C3_UnknownKeyRejected ==
    \A r \in RIDs :
        (/\ rq[r].route \in AuthRoutes
         /\ rq[r].stage = "done"
         /\ PresentedKeys(rq[r]) # {}
         /\ PresentedKeys(rq[r]) \cap ConfiguredKeys = {}) =>
            /\ rq[r].status = 401
            /\ rq[r].code = "INVALID_KEY"
            /\ rq[r].username = NoUser

\* the request presents k as its only key, in a location keyRequired reads:
\* the query string, the parsed body, X-Api-Key or Authorization: Bearer
OnlyKey(q, k) ==
    /\ PresentedKeys(q) = {k}
    /\ q.ctype = "multipart" => q.bodyKey = NoKey

\* the request is past keyRequired
PastKeyRequired(q) ==
    /\ q.route \in AuthRoutes
    /\ q.stage \notin {"idle", "keyRequired"}

\* C4 (as claimed): every configured key, presented as the only key, passes
\* keyRequired with the username it is configured for.
C4_ConfiguredKeyPasses ==
    \A r \in RIDs : \A u \in Users :
        (PastKeyRequired(rq[r]) /\ OnlyKey(rq[r], ConfigKeys[u])) =>
            /\ rq[r].username = u
            /\ rq[r].code \notin AuthErrors

\* C4 (amended): every configured key of at least 10 characters, presented as
\* the only key, passes keyRequired with the username it is configured for.
C4_LongConfiguredKeyPasses ==
    \A r \in RIDs : \A u \in Users :
        (/\ PastKeyRequired(rq[r])
         /\ OnlyKey(rq[r], ConfigKeys[u])
         /\ Len(ConfigKeys[u]) >= 10) =>
            /\ rq[r].username = u
            /\ rq[r].code \notin AuthErrors

\* C4 witness: a request authenticated by a Bearer token alone
C4_Witness ==
    \E r \in RIDs :
        /\ PastKeyRequired(rq[r])
        /\ OnlyKey(rq[r], KAlice)
        /\ BearerToken(rq[r]) = KAlice
        /\ rq[r].username = "alice"

FileRoutes == {"serve", "delete"}

HasSeparator(name) == \E i \in 1..Len(name) : name[i] = "/"

HasDotDot(name) == \E i \in 1..(Len(name) - 1) : name[i] = "." /\ name[i + 1] = "."

RECURSIVE LastComponent(_)
LastComponent(name) ==
    IF name # <<>> /\ name[Len(name)] = "/"
    THEN LastComponent(SubSeq(name, 1, Len(name) - 1))
    ELSE IF HasSeparator(name) THEN LastComponent(Tail(name))
    ELSE name

C6_OnlyUploadDirTouched ==
    /\ \A r \in RIDs : \A p \in rq[r].touched :
          /\ Len(p) = Len(UploadRoot) + 1
          /\ SubSeq(p, 1, Len(UploadRoot)) = UploadRoot
    /\ \A p \in DOMAIN InitialDisk \ UploadDir(InitialDisk) :
          p \in DOMAIN disk /\ disk[p] = InitialDisk[p]

\* C6 witness: a request naming a file through a directory part has deleted a
\* file
C6_Witness ==
    \E r \in RIDs :
        /\ rq[r].route = "delete"
        /\ HasSeparator(rq[r].fname)
        /\ rq[r].stage = "done"
        /\ rq[r].status = 200

(***************************************************************************)
(* Properties of the streaming path                                        *)
(***************************************************************************)

\* the request in slot r is a streamed upload
Streamed(q) == q.route = "upload" /\ q.large

\* a write-stream error, an upload-stream error, a framing error or a client
\* disconnect has occurred in the request
Failed(q) ==
    \/ q.ws = "errored"
    \/ q.ferr # "none"
    \/ q.berr # "none"
    \/ q.reqErr
    \/ q.closed /\ q.bpos = "broken"

\* C7 (as claimed): a streamed upload whose file part was cut at
\* largeFileSizeLimit, that failed in no other way and did not time out, once
\* received and answered, has been answered 413 FILE_TOO_LARGE and its
\* destination file is gone.
C7_OverLimitAnswered413 ==
    \A r \in RIDs :
        (/\ Streamed(rq[r])
         /\ rq[r].filename # <<>>
         /\ rq[r].truncated
         /\ ~Failed(rq[r])
         /\ rq[r].finished
         /\ rq[r].status \notin {0, 408}) =>
            /\ rq[r].status = 413
            /\ rq[r].code = "FILE_TOO_LARGE"
            /\ StreamPath(rq[r]) \notin DOMAIN disk

\* C8 (as claimed): once a streamed upload has failed, req.file is not set any
\* more, the success handler is not reached, and when nothing of the request
\* is left to happen its destination file is absent.
C8_FailedUploadNeverCompletes ==
    /\ [][\A r \in RIDs :
            (Streamed(rq[r]) /\ Failed(rq[r]) /\ rq[r].reqFile = <<>>) =>
                rq'[r].reqFile = <<>>]_vars
    /\ [](\A r \in RIDs :
            (Streamed(rq[r]) /\ Failed(rq[r]) /\ rq[r].filename # <<>>) =>
                /\ rq[r].stage # "uploadHandler"
                /\ rq[r].status # 200
                /\ Quiescent(r) => StreamPath(rq[r]) \notin DOMAIN disk)

\* C9 (as claimed): when the connection of a streamed upload has closed after
\* the file part started and before the form was complete, the write stream
\* is destroyed, and when nothing of the request is left to happen no file
\* of the request remains.
C9_DisconnectLeavesNoFile ==
    \A r \in RIDs :
        (/\ Streamed(rq[r])
         /\ rq[r].closed
         /\ rq[r].bpos = "broken"
         /\ rq[r].filename # <<>>) =>
            /\ rq[r].ws \notin {"opening", "open"}
            /\ Quiescent(r) => StreamPath(rq[r]) \notin DOMAIN disk

\* the file part of the request has a file name whose lower-cased extension
\* is not in the allow-list
RefusedExtension(q) ==
    /\ ExtensionCheckEnabled
    /\ q.orig # <<>>
    /\ ToLowerCase(Extname(q.orig)) \notin ExtensionsAllowed

\* C10 (as claimed): a streamed upload whose file part has a refused
\* extension never opens a write stream, leaves the upload directory as it
\* was at every moment, and from its file part on is answered 400
\* INVALID_EXTENSION.
C10_RefusedExtensionAnswered400 ==
    \A r \in RIDs :
        (Streamed(rq[r]) /\ RefusedExtension(rq[r])) =>
            /\ rq[r].ws = "none"
            /\ rq[r].filename = <<>>
            /\ DirView(disk) = rq[r].dir0
            /\ rq[r].fstream # "none" =>
                   rq[r].status = 400 /\ rq[r].code = "INVALID_EXTENSION"

\* C10 (amended): a streamed upload whose file part has a refused extension
\* never opens a write stream and leaves the upload directory as it was at
\* every moment; from its file part on it is answered 400 INVALID_EXTENSION,
\* unless the request timeout had answered 408 before the file part arrived.
C10_RefusedExtensionOpensNoFile ==
    \A r \in RIDs :
        (Streamed(rq[r]) /\ RefusedExtension(rq[r])) =>
            /\ rq[r].ws = "none"
            /\ rq[r].filename = <<>>
            /\ DirView(disk) = rq[r].dir0
            /\ rq[r].fstream # "none" =>
                   \/ rq[r].status = 400 /\ rq[r].code = "INVALID_EXTENSION"
                   \/ rq[r].status = 408

\* C10 witness: the data of a refused file part has been discarded to its end
\* and the request answered
C10_Witness ==
    \E r \in RIDs :
        /\ Streamed(rq[r])
        /\ RefusedExtension(rq[r])
        /\ rq[r].fstream = "ended"
        /\ rq[r].sent > 0
        /\ rq[r].status = 400
        /\ rq[r].code = "INVALID_EXTENSION"

\* the streamed upload has been received in full and nothing has gone wrong:
\* no error, no cut at the size limit, no timeout, and the client is still
\* connected
CleanCompletion(q) ==
    /\ Streamed(q)
    /\ q.filename # <<>>
    /\ q.finished
    /\ ~Failed(q)
    /\ ~q.truncated
    /\ ~q.closed
    /\ q.status # 408

\* C11 (as claimed): a streamed upload of a client presenting a configured
\* key that completes without error, once answered, has been answered 200
\* with the generated file name, req.file naming that file.
C11_StreamedUploadSucceeds ==
    \A r \in RIDs :
        (/\ CleanCompletion(rq[r])
         /\ PresentedKeys(rq[r]) = {KAlice}
         /\ rq[r].status # 0) =>
            /\ rq[r].status = 200
            /\ rq[r].reqFile = rq[r].filename
            /\ rq[r].outFile = rq[r].filename

(***************************************************************************)
(* Properties of the rate limiter                                          *)
(***************************************************************************)

\* the limiter let the request through to the route's middleware
Passed(q) == q.stage = "keyRequired" /\ q.status = 0

\* the limiter decides on the request in slot r in this step
Limiting(r) == rq[r].stage = "rateLimit" /\ rq'[r].stage # "rateLimit"

\* the open window of a network address at a limiter, if there is one
InWindow(requests, id, now) ==
    id \in DOMAIN requests /\ now - requests[id].resetTime <= RateWindowMs

\* C12: at a limiter with maxRequests = M and window W, a request that
\* arrives within the open window of its identity (now - windowStart <= W)
\* is passed on and counted while fewer than M requests of the window were
\* passed, and is answered 429 and not counted once M were passed; a request
\* that arrives with no window open, or more than W after the window's
\* start, opens a window at the current time, counts as its first request
\* and is passed on.  The identity is the one the limiter knows the request
\* by when it runs, its network address.
C12_WindowedLimit ==
    [][\A r \in RIDs :
         Limiting(r) =>
           LET id == rq[r].ip
               M == MaxRequestsOf(rq[r].route)
               before == Requests(lim, rq[r].route)
               after == Requests(lim', rq[r].route)
           IN  /\ id \in DOMAIN after
               /\ IF InWindow(before, id, lim.now)
                  THEN IF before[id].count < M
                       THEN /\ Passed(rq'[r])
                            /\ after[id] = [before[id] EXCEPT !.count = @ + 1]
                       ELSE /\ rq'[r].status = 429
                            /\ after[id] = before[id]
                            /\ before[id].count = M
                  ELSE /\ Passed(rq'[r])
                       /\ after[id] = [count |-> 1, resetTime |-> lim.now]]_vars

\* a request is answered 429 in a window that was opened after an earlier
\* window of the same limiter had run out
C12_Witness ==
    \E r \in RIDs :
        /\ rq[r].status = 429
        /\ rq[r].route = "upload"
        /\ started > UploadMaxRequests + 1
        /\ rq[r].ip \in DOMAIN lim.upload
        /\ lim.upload[rq[r].ip].resetTime > RateWindowMs
        /\ lim.upload[rq[r].ip].count = UploadMaxRequests

\* the limiter has just counted the request and handed it on
JustCounted(q) == q.route \in LimitedRoutes /\ Passed(q)

\* C13: the window of a request that presents a valid key is kept under the
\* key's username, so that requests with the same key from different
\* network addresses share one counter; only a request without a valid key
\* is kept under its network address.
C13_KeyedByUsername ==
    \A r \in RIDs :
        JustCounted(rq[r]) =>
            LET requests == Requests(lim, rq[r].route)
                key == rq[r].qKey
            IN  IF key \in ConfiguredKeys
                THEN /\ KeyToUsername[key] \in DOMAIN requests
                     /\ rq[r].ip \notin DOMAIN requests
                ELSE rq[r].ip \in DOMAIN requests

(***************************************************************************)
(* Properties of the file route                                            *)
(***************************************************************************)

\* the stored file a request names, and its size
Stored(q) == InUploads(q.fname) \in DOMAIN disk
SizeOf(q) == Len(disk[InUploads(q.fname)])

\* a request for a stored video that sent a Range header and was answered
RangedVideo(q) ==
    /\ q.route = "serve" /\ q.stage = "done"
    /\ q.fname \in {FB, FE} /\ Stored(q)
    /\ q.range # <<>>

\* the header value bytes=s-e, or bytes=s- when e is left out, written with
\* the digits of s and e
WellFormed(range, s, e, omitted) ==
    \E ds \in 1..Len(range) :
        /\ StartsWith(range, Bytes(<<>>))
        /\ ds > 6 /\ range[ds] = "-"
        /\ \A i \in 7..(ds - 1) : IsDigit(range[i])
        /\ ds > 7
        /\ \A i \in (ds + 1)..Len(range) : IsDigit(range[i])
        /\ omitted <=> ds = Len(range)
        /\ ParseDigits(SubSeq(range, 7, ds - 1), 0) = s
        /\ omitted \/ ParseDigits(SubSeq(range, ds + 1, Len(range)), 0) = e

\* C14: a request for a stored video of size N with Range: bytes=s-e,
\* 0 <= s <= e < N (e = N-1 when left out), is answered 206 with
\* Content-Range: bytes s-e/N, Accept-Ranges: bytes and
\* Content-Length = e-s+1, and its body is bytes s..e of the file.
C14_RangeServed ==
    \A r \in RIDs :
        RangedVideo(rq[r]) =>
            LET q == rq[r]
                N == SizeOf(q)
                content == disk[InUploads(q.fname)]
            IN  \A s \in 0..(N - 1), e \in 0..(N - 1), omitted \in BOOLEAN :
                    (/\ WellFormed(q.range, s, e, omitted)
                     /\ s <= e
                     /\ omitted => e = N - 1) =>
                        /\ q.status = 206
                        /\ q.headers["Content-Range"] = ContentRange(s, e, N)
                        /\ q.headers["Accept-Ranges"] = "bytes"
                        /\ q.headers["Content-Length"] = e - s + 1
                        /\ q.outBody = SubSeq(content, s + 1, e + 1)

\* a part of a video was served from the middle of the file
C14_Witness ==
    \E r \in RIDs :
        /\ RangedVideo(rq[r])
        /\ rq[r].status = 206
        /\ rq[r].range = Bytes(<<"1", "-", "2">>)
        /\ rq[r].outBody = <<2, 3>>

\* C15: a request for a stored video of size N (N = 0 included) whose Range
\* header parses to a start and an end with start >= N, end >= N or
\* start > end is answered 416 with Content-Range: bytes */N and no body,
\* and no read stream is opened on the file.
C15_UnsatisfiableRange ==
    \A r \in RIDs :
        RangedVideo(rq[r]) =>
            LET q == rq[r]
                N == SizeOf(q)
                start == RangeStart(q.range)
                end == RangeEnd(q.range, N)
            IN  (\/ ~start.nan /\ start.val >= N
                 \/ ~end.nan /\ end.val >= N
                 \/ ~start.nan /\ ~end.nan /\ start.val > end.val) =>
                    /\ q.status = 416
                    /\ q.headers["Content-Range"] = ContentRangeAny(N)
                    /\ q.outBody = <<>>
                    /\ ~q.rs.open

\* a range on the empty video was refused
C15_Witness ==
    \E r \in RIDs :
        /\ RangedVideo(rq[r])
        /\ rq[r].fname = FE
        /\ rq[r].range = Bytes(<<"0", "-">>)
        /\ rq[r].status = 416

\* C16: every Range header sent for a stored video of size N is answered
\* 206 or 416, and a 206 carries integers 0 <= start <= end < N in
\* Content-Range with Content-Length = end - start + 1.
C16_RangeAlways206Or416 ==
    \A r \in RIDs :
        RangedVideo(rq[r]) =>
            LET q == rq[r]
                N == SizeOf(q)
            IN  /\ q.status \in {206, 416}
                /\ q.status = 206 =>
                     LET cr == q.headers["Content-Range"]
                     IN  /\ 0 <= cr.start /\ cr.start <= cr.end /\ cr.end < N
                         /\ q.headers["Content-Length"] = cr.end - cr.start + 1

\* the fetch in the second slot of the file the upload in the first slot
\* returned
Fetched(up, get) ==
    /\ up.route = "upload" /\ up.stage = "done" /\ up.status = 200
    /\ get.route = "serve" /\ get.stage = "done"
    /\ get.fname = up.outFile

\* C17: after an upload of content C with a .png file name was answered
\* 200, the GET of the returned file URL, without a Range header and with no
\* delete in between, is answered 200 with Content-Type: image/png,
\* Content-Length = |C| and a body equal to C.
C17_RoundTrip ==
    (/\ Fetched(rq[1], rq[2])
     /\ ToLowerCase(Extname(rq[1].orig)) = <<".", "p", "n", "g">>) =>
        /\ rq[2].status = 200
        /\ rq[2].headers["Content-Type"] = "image/png"
        /\ rq[2].headers["Content-Length"] = Len(rq[1].content)
        /\ rq[2].outBody = rq[1].content

\* an uploaded picture of two bytes was fetched
C17_Witness ==
    /\ Fetched(rq[1], rq[2])
    /\ rq[1].content = <<7, 8>>
    /\ rq[2].status = 200
    /\ rq[2].outBody = <<7, 8>>

(***************************************************************************)
(* Properties of the key locations                                         *)
(***************************************************************************)

\* the request carries no key: not in the query string, not in its body
\* (urlencoded or multipart), not in X-Api-Key, not as a Bearer token
Keyless(q) ==
    /\ q.qKey = NoKey /\ q.bodyKey = NoKey /\ q.xKey = NoKey
    /\ BearerToken(q) = NoKey

\* C18: a request to /upload, /delete or /config that carries no key in any
\* location is answered 400 EMPTY_KEY whatever its Content-Type, and nothing
\* is stored, deleted or disclosed.
C18_KeylessAnswered400 ==
    \A r \in RIDs :
        (rq[r].route \in AuthRoutes /\ rq[r].stage = "done" /\ Keyless(rq[r])) =>
            /\ rq[r].status = 400
            /\ rq[r].code = "EMPTY_KEY"
            /\ DirView(disk) = rq[r].dir0
            /\ rq[r].outKey = <<>>

\* the body field of a request, where the route has a body parsed for it:
\* urlencoded bodies everywhere, multipart bodies on /upload
BodyField(q) ==
    IF q.ctype = "form" \/ (q.ctype = "multipart" /\ q.route = "upload")
    THEN q.bodyKey ELSE NoKey

\* the first non-empty key in the order query parameter, body field,
\* X-Api-Key header, Authorization: Bearer header
FirstKey(q) ==
    IF q.qKey # NoKey THEN q.qKey
    ELSE IF BodyField(q) # NoKey THEN BodyField(q)
    ELSE IF q.xKey # NoKey THEN q.xKey
    ELSE BearerToken(q)

\* the user a key is configured for
ConfiguredUser(k) ==
    IF k \in ConfiguredKeys THEN CHOOSE u \in Users : ConfigKeys[u] = k ELSE NoUser

\* C19: the key a request is authenticated with is the first non-empty one
\* in the order query parameter, body field, X-Api-Key header,
\* Authorization: Bearer header: the username of the request is the one
\* that key is configured for, and when that key is not configured the
\* request is refused with INVALID_KEY even if a later location holds a
\* configured key.
C19_FirstKeyWins ==
    \A r \in RIDs :
        (rq[r].route \in AuthRoutes /\ rq[r].stage = "done") =>
            LET first == FirstKey(rq[r])
            IN  /\ rq[r].username # NoUser =>
                       rq[r].username = ConfiguredUser(first)
                /\ (first # NoKey /\ first \notin ConfiguredKeys) =>
                       /\ rq[r].username = NoUser
                       /\ rq[r].code = "INVALID_KEY"

\* the least length of a key that may authenticate
MinKeyLength == 10

\* C20: no request is authenticated with a key shorter than 10 characters,
\* on any route and through any key location, the multipart body field
\* checked after parsing included, even when the key is configured.
C20_NoShortKeyAuthenticates ==
    \A r \in RIDs :
        rq[r].username \in Users =>
            Len(ConfigKeys[rq[r].username]) >= MinKeyLength

(***************************************************************************)
(* Properties of the delete route                                          *)
(***************************************************************************)

\* a delete request of an authenticated user that has been answered
AuthenticatedDelete(q) ==
    q.route = "delete" /\ q.stage = "done" /\ q.username \in Users

\* the name is not the name of a file of the upload directory as the request
\* found it
Missing(q) == InUploads(q.fname) \notin DOMAIN q.dir0

\* a plain file name: not empty, no separator, no '..', no leading '.'
PlainName(name) ==
    /\ name # <<>> /\ name[1] # "."
    /\ ~HasSeparator(name) /\ ~HasDotDot(name)

C22_DeleteRemovesExactlyOne ==
    \A r \in RIDs :
        (AuthenticatedDelete(rq[r]) /\ ~Missing(rq[r])) =>
            LET path == InUploads(rq[r].fname)
            IN  /\ rq[r].status = 200
                /\ rq[r].outFile = rq[r].fname
                /\ path \notin DOMAIN disk
                /\ DirView(disk) =
                      [p \in DOMAIN rq[r].dir0 \ {path} |-> rq[r].dir0[p]]

\* bob has deleted a file stored before any request of bob
C22_Witness ==
    \E r \in RIDs :
        /\ AuthenticatedDelete(rq[r]) /\ ~Missing(rq[r])
        /\ rq[r].username = "bob"
        /\ rq[r].fname = FA
        /\ rq[r].status = 200
        /\ InUploads(FB) \in DOMAIN disk

(***************************************************************************)
(* Properties of the upload response and the configuration document        *)
(***************************************************************************)

\* an upload answered 200 on the regular path
UploadedOk(q) ==
    q.route = "upload" /\ q.stage = "done" /\ q.status = 200 /\ ~q.large

\* C23: the delete_url of a successful upload embeds the generated file
\* name and the key that authenticated the upload, wherever the key was
\* supplied (query, body field, X-Api-Key, Bearer token), so that a GET of
\* it authenticates and deletes the file.
C23_DeleteUrlCarriesKey ==
    \A r \in RIDs :
        UploadedOk(rq[r]) =>
            /\ rq[r].outFile = GeneratedName(rq[r].stamp, rq[r].orig)
            /\ rq[r].username \in Users
            /\ rq[r].outKey = ConfigKeys[rq[r].username]

\* a request to /config that has been answered
ConfigAnswered(q) == q.route = "config" /\ q.stage = "done"

\* C24: a request to /config authenticated with key K receives a document
\* with Arguments.key = K, the caller's own key, and
\* RequestURL = serverUrl + '/upload'; a request that is not authenticated
\* receives no document and no configured key.
C24_ConfigCarriesOwnKey ==
    \A r \in RIDs :
        ConfigAnswered(rq[r]) =>
            /\ rq[r].status = 200 =>
                  /\ FirstKey(rq[r]) \in ConfiguredKeys
                  /\ rq[r].username = ConfiguredUser(FirstKey(rq[r]))
                  /\ rq[r].outDoc.key = FirstKey(rq[r])
                  /\ rq[r].outDoc.RequestURL =
                        ServerUrl \o <<"/", "u", "p", "l", "o", "a", "d">>
            /\ rq[r].username \in Users => rq[r].status = 200
            /\ rq[r].username \notin Users =>
                  /\ rq[r].status # 200
                  /\ rq[r].outDoc = Idle.outDoc
                  /\ rq[r].outKey \notin ConfiguredKeys

\* bob has received the document with bob's key
C24_Witness ==
    \E r \in RIDs :
        /\ ConfigAnswered(rq[r])
        /\ rq[r].status = 200
        /\ rq[r].username = "bob"
        /\ rq[r].outDoc.key = KBob

(***************************************************************************)
(* Properties of the WebSocket server                                      *)
(***************************************************************************)

\* the connection is open and its client has asked to track an upload
Subscribed(c) ==
    wss.clients[c].state = "open" /\ wss.clients[c].uploadId \in UploadIds

\* a streamed upload has received bytes of its file.  The server keeps no
\* identifier of an upload: the upload of the behaviour is the one the
\* subscriber means.
ReceivingBytes(r) ==
    rq[r].route = "upload" /\ rq[r].large /\ rq[r].bytesReceived > 0

\* C25: once a subscriber has sent {type:"track", uploadId:X} and the
\* streamed upload X has received bytes, the server eventually pushes a
\* progress message to the subscriber, unless the connection ends first.
C25_ProgressPushed ==
    \A c \in WIDs :
        ((\E r \in RIDs : Subscribed(c) /\ ReceivingBytes(r))
            ~> (wss.clients[c].out # <<>> \/ wss.clients[c].state # "open"))

\* C26: no connection stays open after it has received no message for the
\* time of the connection timeout, whether it never sent a message or sent
\* some before falling silent.
C26_IdleTerminated ==
    \A c \in WIDs :
        wss.clients[c].state = "open" => wss.clients[c].idle <= WsTimeoutTicks

\* the message is {type:"track", uploadId:<non-empty string>} in at most
\* 1 KiB of JSON
WellFormedTrack(m) ==
    /\ m.length <= MaxPayload /\ m.syntax = "object"
    /\ m.type = "track" /\ m.idType = "string" /\ m.uploadId # ""

\* C27: after a malformed inbound message (not JSON, above 1 KiB, or not of
\* the form {type:"track", uploadId:<non-empty string>}) the connection is
\* being closed with an error close code; the message is not ignored.
C27_MalformedCloses ==
    \A c \in WIDs :
        LET client == wss.clients[c]
        IN  (client.last # NoMessage /\ ~WellFormedTrack(client.last)) =>
                /\ client.state # "open"
                /\ client.closeCode \in {1002, 1003, 1007, 1008, 1009}

(***************************************************************************)
(* Properties of the error responses and of the process                    *)
(***************************************************************************)

\* C28: every error response of /upload, /delete and /config, the 429 of
\* the rate limiter, the 408 of the request timeout and every 500 included,
\* is the envelope of sendError with a machine-readable code that is not
\* null; a rate-limited request carries RATE_LIMITED and an internal error
\* SERVER_ERROR.  (A response written without sendError has no code and no
\* timestamp: its code is "" here.)
C28_ErrorEnvelope ==
    \A r \in RIDs :
        (rq[r].route \in AuthRoutes /\ rq[r].status >= 400) =>
            /\ rq[r].code # ""
            /\ rq[r].status = 429 => rq[r].code = "RATE_LIMITED"
            /\ rq[r].status = 500 => rq[r].code = "SERVER_ERROR"

\* C29: no sequence of client requests makes the server process exit or
\* raise an uncaught exception.
C29_ProcessNeverExits == ~crashed

\* C30: when the read of the file fails while GET /f/:filename streams it,
\* the response is a 500 if the headers were not sent yet; if they were
\* sent the response is terminated, not left open, and nothing is sent a
\* second time.
C30_ReadErrorHandled ==
    \A r \in RIDs :
        /\ rq[r].rs.failed = "unsent" => rq[r].status = 500 /\ rq[r].nresp = 1
        /\ rq[r].rs.failed = "sent" => rq[r].stage # "open" /\ rq[r].nresp = 1

\* C31: the limiters of /upload and /delete are independent: a request
\* handled by one leaves the table of the other as it is, and each answers
\* 429 exactly when its own count for the identity, in its own open window,
\* has reached its own limit.
C31_IndependentLimiters ==
    [][\A r \in RIDs :
         Limiting(r) =>
           LET id == rq[r].ip
               now == lim.now
           IN  /\ rq[r].route = "upload" =>
                     /\ lim'.delete = lim.delete
                     /\ rq'[r].status = 429 <=>
                           /\ InWindow(lim.upload, id, now)
                           /\ lim.upload[id].count >= UploadMaxRequests
               /\ rq[r].route = "delete" =>
                     /\ lim'.upload = lim.upload
                     /\ rq'[r].status = 429 <=>
                           /\ InWindow(lim.delete, id, now)
                           /\ lim.delete[id].count >= DeleteMaxRequests]_vars

\* a delete request is passed as the last one of its window, from an address
\* whose upload window is used up
C31_Witness ==
    \E r \in RIDs :
        /\ rq[r].route = "delete"
        /\ Passed(rq[r])
        /\ rq[r].ip \in DOMAIN lim.delete
        /\ lim.delete[rq[r].ip].count = DeleteMaxRequests
        /\ rq[r].ip \in DOMAIN lim.upload
        /\ lim.upload[rq[r].ip].count >= 1

\* C32: the content stored under a name of the upload directory never
\* changes while the name exists: no upload writes to a name that is
\* already there.  (Requests are handled one at a time, so every file of the
\* directory is one a completed upload stored.)
C32_StoredContentNeverChanges ==
    [][\A p \in DOMAIN disk :
         (Len(p) = Len(UploadRoot) + 1 /\ p \in DOMAIN disk')
             => disk'[p] = disk[p]]_vars

\* the streamed upload of the first slot has completed: busboy has finished
\* the form and handed the stored file on
StreamCompleted == rq[1].finished /\ rq[1].reqFile # <<>>

\* the request in slot r asked for the file the upload of the first slot
\* writes, and was answered 200
Obtained(r) ==
    /\ r # 1
    /\ rq[1].route = "upload" /\ rq[1].large
    /\ rq[r].route \in {"serve", "delete"}
    /\ rq[r].fname = GenerateUniqueFilename(rq[1].stamp, rq[1].orig)
    /\ rq[r].stage = "done"
    /\ rq[r].status = 200

\* C33: a file becomes visible only as a whole: GET /f/<name> and GET /delete
\* succeed on the destination name of a streamed upload only after that
\* upload has completed.
C33_VisibleOnlyWhenComplete ==
    \A r \in RIDs : Obtained(r) => StreamCompleted

\* C34: on /upload and /delete the limiter runs before authentication: a
\* request answered 429 has had no key evaluated (it carries no username and
\* no authentication error, valid key or not), and a request rejected by
\* authentication has been counted: its limiter holds a window for its
\* address whose count is the limit less the remaining budget it was told,
\* at least one.
C34_LimitBeforeAuthentication ==
    \A r \in RIDs :
        (rq[r].route \in LimitedRoutes /\ rq[r].stage = "done") =>
            LET q == rq[r]
                table == IF q.route = "upload" THEN lim.upload ELSE lim.delete
                M == IF q.route = "upload" THEN UploadMaxRequests
                     ELSE DeleteMaxRequests
            IN  /\ q.status = 429 =>
                      /\ q.username = NoUser
                      /\ q.code \notin AuthErrors
                      /\ ~q.shortKey
                /\ q.code \in AuthErrors =>
                      /\ q.ip \in DOMAIN table
                      /\ table[q.ip].count >= 1
                      /\ table[q.ip].count = M - q.rlRemaining
                      /\ q.rlLimit = M

\* an upload rejected for its key has used the last unit of its address
C34_Witness ==
    \E r \in RIDs :
        /\ rq[r].route = "upload"
        /\ rq[r].stage = "done"
        /\ rq[r].code = "INVALID_KEY"
        /\ rq[r].ip \in DOMAIN lim.upload
        /\ lim.upload[rq[r].ip].count = UploadMaxRequests
        /\ rq[r].rlRemaining = 0

\* the limiter of a route holds an entry of the address whose window is over
Stale(route, ip) ==
    LET table == IF route = "upload" THEN lim.upload ELSE lim.delete
    IN  /\ ip \in DOMAIN table
        /\ lim.now - table[ip].resetTime > RateWindowMs

\* C35: an entry whose window is over is eventually removed from its
\* limiter's table, whether or not a further request reaches the limiter.
C35_StaleEntryPurged ==
    \A route \in LimitedRoutes, ip \in IPs :
        Stale(route, ip) ~> ~Stale(route, ip)

\* C36: a POST /upload handled by the streaming path writes at most one
\* response and calls next at most once, whatever part was rejected or
\* failed before busboy's 'finish'.
C36_OneResponseOneNext ==
    \A r \in RIDs :
        (rq[r].route = "upload" /\ rq[r].large) =>
            /\ rq[r].nresp <= 1
            /\ rq[r].nextCalls <= 1

\* C37: once a streamed upload is answered 200, the file it names is in the
\* upload directory with all the bytes received, then and from then on (no
\* delete request is made); the 'close' handler of the request removes no
\* file of a completed upload.
C37_AnsweredFileStays ==
    \A r \in RIDs :
        (rq[r].route = "upload" /\ rq[r].large /\ rq[r].status = 200) =>
            /\ rq[r].filename # <<>>
            /\ StreamPath(rq[r]) \in DOMAIN disk
            /\ disk[StreamPath(rq[r])] = [i \in 1 .. rq[r].bytesReceived |-> i]

\* the request in slot r is for a file that was stored when it arrived
ForStored(r) == InUploads(rq[r].fname) \in DOMAIN rq[r].dir0

\* the requests in two slots are for the same file, which was stored when
\* each of them arrived: none of them began after the other had removed it
SameStored(r, o) ==
    /\ r # o
    /\ rq[r].fname = rq[o].fname
    /\ ForStored(r) /\ ForStored(o)

\* C38: of two authenticated GET /delete requests for the same stored file
\* that run concurrently, one is answered 200 and the other 404
\* FILE_NOT_FOUND; none is answered 500.
C38_ConcurrentDeletes ==
    \A r, o \in RIDs :
        (/\ SameStored(r, o)
         /\ rq[r].route = "delete" /\ rq[o].route = "delete"
         /\ rq[r].stage = "done" /\ rq[o].stage = "done") =>
            /\ {rq[r].status, rq[o].status} = {200, 404}
            /\ rq[r].status = 404 => rq[r].code = "FILE_NOT_FOUND"

\* C39: a GET /f/<name> that runs concurrently with a delete of the same
\* stored file is answered with the file (200 or 206) or with 404, never
\* with 500, and its response is brought to an end.
C39_ServeDuringDelete ==
    \A r, o \in RIDs :
        (/\ SameStored(r, o)
         /\ rq[r].route = "serve" /\ rq[o].route = "delete") =>
            /\ rq[r].status \in {0, 200, 206, 404}
            /\ rq[r].stage # "open"
            /\ (rq[r].stage = "done" /\ rq[r].status = 200) =>
                   rq[r].outBody = rq[r].dir0[InUploads(rq[r].fname)]

\* C40: every entry of a limiter has a count from 0 to the limiter's
\* maxRequests; a request answered 429 leaves the entry of its address as it
\* was; a request that is passed on is told X-RateLimit-Remaining =
\* maxRequests - count, not negative, and X-RateLimit-Reset = windowStart +
\* windowMs, count and windowStart being those of its entry after the step.
C40_LimiterInvariants ==
    [][/\ \A id \in DOMAIN lim'.upload :
             lim'.upload[id].count \in 0 .. UploadMaxRequests
       /\ \A id \in DOMAIN lim'.delete :
             lim'.delete[id].count \in 0 .. DeleteMaxRequests
       /\ \A r \in RIDs :
             Limiting(r) =>
               LET id == rq[r].ip
                   up == rq[r].route = "upload"
                   M == IF up THEN UploadMaxRequests ELSE DeleteMaxRequests
                   before == IF up THEN lim.upload ELSE lim.delete
                   after == IF up THEN lim'.upload ELSE lim'.delete
               IN  /\ rq'[r].status = 429 =>
                         /\ id \in DOMAIN before /\ id \in DOMAIN after
                         /\ after[id] = before[id]
                   /\ Passed(rq'[r]) =>
                         /\ id \in DOMAIN after
                         /\ rq'[r].rlRemaining = M - after[id].count
                         /\ rq'[r].rlRemaining >= 0
                         /\ rq'[r].rlReset = after[id].resetTime + RateWindowMs]_vars

\* a delete request is answered 429, the window of its address full
C40_Witness ==
    \E r \in RIDs :
        /\ rq[r].route = "delete"
        /\ rq[r].status = 429
        /\ rq[r].ip \in DOMAIN lim.delete
        /\ lim.delete[rq[r].ip].count = DeleteMaxRequests

====
